---- MODULE Spec2Model ----
(***************************************************************************)
(* Model of the request coordination fabric of imaged:                     *)
(*   - singleflight::Group (src/src/singleflight.rs), on top of a          *)
(*     tokio watch channel carrying Option<T>;                             *)
(*   - cache::memory::MemoryCache (src/src/cache/memory.rs), a byte-       *)
(*     bounded LRU.                                                        *)
(* Each component has its own specification (SpecSF, SpecMem) over the     *)
(* shared variable tuple; the other component's variables stay unchanged.  *)
(***************************************************************************)
EXTENDS Integers, Sequences, FiniteSets, TLC

\* ------------------------------------------------------------------------
\* Bounds of the model
\* ------------------------------------------------------------------------
\* capacity of the DiskCache I/O semaphore (128 in the source, scaled down)
DiskPermits == 1
\* number of get_image requests
NumRequests == 2
\* longest raw query, in pairs
MaxPairs == 2
\* Handler::new(.., concurrency, ..): capacity of the admission semaphore
Concurrency == 1
\* ImageProccessor::new(num_workers)
NumWorkers == 1
\* number of calls of DiskCache::get / ::set that are issued
NumDiskCalls == 2
\* DiskCache::new(path, max_size)
DiskMaxSize == 7
\* number of calls of Group::run that are issued
NumCallers == 3
\* callers of Group::run in the runs checked for progress
NumWaiters == 2
\* MemoryCache::new(max_bytes)
MaxBytes == 2

Callers == 1..NumCallers
\* single-flight keys (handler::Key values)
Keys == {"k1", "k2"}

\* Option<T>::None inside the watch channel; Some(v) is the number v >= 1
None == 0
\* "no channel": the key has no slot / the caller holds no handle
NoCh == 0

VARIABLES
    \* ---- singleflight::Group ----
    pc,        \* position of each caller inside Group::run
    key,       \* the key each call was made with
    map,       \* Group.inner: key -> channel whose Receiver the slot holds
    chans,     \* the watch channels created so far (index = channel id)
    rx,        \* the Receiver clone a follower holds: [ch, ver]
    tx,        \* the Sender a leader holds (channel id)
    guard,     \* whether the caller holds a live Guard
    res,       \* `res` local of the leader: what func produced
    ret,       \* the value Group::run returned to the caller
    invoked,   \* per key: how many times func has been invoked
    \* ---- history of the single-flight run (not program state) ----
    joined,    \* the channel of the computation the caller last shared
    aborted,   \* channels whose leader was cancelled or panicked
    late,      \* keys that were called after a leader of the key had left
    wokeFrom,  \* the channel the caller last woke from with no result
    sendSkipped, \* channels whose leader skipped tx.send (is_closed)
    \* ---- cache::memory::MemoryCache ----
    lru,       \* Inner.lru: sequence of [k, v], head = most recently used
    size,      \* Inner.size
    memPanic,  \* a checked_sub .expect() fired
    memLast,   \* the last public operation and what it returned
    lastSet,   \* history: the value most recently set per fingerprint
    \* ---- cache::disk::DiskCache: the entry files ----
    files,     \* per path: [exists, data]; data = the bytes of the file
    origin,    \* history: per path, how the present file came to be
    fmtLast,   \* the last get_inner on a file at rest and what it saw
    \* ---- cache::disk::DiskCache: get / set and their blocking jobs ----
    dpc,       \* position of each caller inside DiskCache::get / ::set
    dop,       \* the call: [kind, f, x]
    dpermit,   \* the callers whose future holds a permit of Inner.sema
    job,       \* the spawn_blocking job of the call: [st, att, r, saw]
    dret,      \* how the caller's last get / set ended
    cur_size,  \* Inner.cur_size
    \* ---- cache::disk::DiskCache: the cleaner task ----
    cl,        \* locals of start_cleaner / clean / remove_files
    pass,      \* history of the current (or last) cleaning pass
    \* ---- handler::Handler and image::ImageProccessor ----
    stage,     \* position of each request inside get_image_inner
    resp,      \* the ImageResponse get_image_inner returns: [status, out]
    admitted,  \* the requests holding a permit of Handler.semaphore
    ppermit,   \* the requests holding a permit of ImageProccessor.semaphore
    pjob,      \* the processor's spawn_blocking job of each request
    cfg,       \* Handler.mem_cache / .disk_cache: which caches are Some
    sc,        \* the should_cache argument of each request
    trail,     \* history: the stages each request has gone through
    \* ---- signature::Verifier and the HTTP handlers of main.rs ----
    http,      \* the last request: its input, message, verdict, outcome
    \* ---- the keys of handler::Key, memory::Key and DiskCache ----
    fpr,       \* the last pair of requests and the keys derived for them
    \* ---- the arguments of handler::Handler::get_image ----
    args       \* per request: the work asked for, timing, ServerTiming.hdr

sfVars == <<pc, key, map, chans, rx, tx, guard, res, ret, invoked,
            joined, aborted, late, wokeFrom, sendSkipped>>
memVars == <<lru, size, memPanic, memLast, lastSet>>
fmtVars == <<files, origin, fmtLast>>
diskVars == <<dpc, dop, dpermit, job, dret, cur_size>>
cleanVars == <<cl, pass>>
pipeVars == <<stage, resp, admitted, ppermit, pjob>>
reqVars == <<cfg, sc, trail>>
vars == <<pc, key, map, chans, rx, tx, guard, res, ret, invoked,
          joined, aborted, late, wokeFrom, sendSkipped,
          lru, size, memPanic, memLast, lastSet,
          files, origin, fmtLast,
          dpc, dop, dpermit, job, dret, cur_size,
          cl, pass,
          stage, resp, admitted, ppermit, pjob,
          cfg, sc, trail, http, fpr, args>>

\* ========================================================================
\* tokio::sync::watch channel, as used by singleflight
\* ========================================================================

\* channel(None): value None, version 0, the Sender alive, one Receiver
NewChannel(k) ==
    [val |-> None, version |-> 0, txAlive |-> TRUE, rxCount |-> 1, key |-> k]

NoRx == [ch |-> NoCh, ver |-> 0]

\* Receiver::clone: shares the channel, copies the version seen by the
\* receiver it is cloned from (the slot's receiver never observes a change)
CloneRx(e) == [ch |-> e, ver |-> 0]

\* dropping one Receiver of channel e
DropRx(cs, e) == [cs EXCEPT ![e].rxCount = @ - 1]

\* dropping the Sender of channel e: receivers waiting in changed() wake
DropTx(cs, e) == [cs EXCEPT ![e].txAlive = FALSE]

\* Sender::is_closed: no Receiver is left
\* faulty variant: counts the slot's own Receiver as gone already
TxIsClosedOffByOne(e) == chans[e].rxCount <= 1
TxIsClosed(e) == chans[e].rxCount = 0

\* the receivers are woken but the value is not stored
TxSendNoValue(cs, e, v) ==
    IF cs[e].rxCount = 0 THEN cs
    ELSE [cs EXCEPT ![e].version = @ + 1]

\* Sender::send(v): fails (value not stored) when no Receiver is left,
\* otherwise stores the value and bumps the version
TxSend(cs, e, v) ==
    IF cs[e].rxCount = 0 THEN cs
    ELSE [cs EXCEPT ![e].val = v, ![e].version = @ + 1]

\* Receiver::changed(): ready with Ok when the version differs from the one
\* seen, else ready with Err when the Sender is gone, else pending
ChangedOk(r) == chans[r.ch].version # r.ver
\* faulty variant: a dropped Sender does not wake the receivers
ChangedErrNever(r) == FALSE
ChangedErr(r) == chans[r.ch].version = r.ver /\ ~chans[r.ch].txAlive

\* ========================================================================
\* singleflight::Group (Group::new and MemoryCache::new are in Init below)
\* ========================================================================

\* Group::get_state under the map's lock, and the match arm it selects.
\* Slot present: clone its Receiver and wait in rx.changed().
\* Slot absent: create the channel, insert the Receiver, build the Guard
\* and invoke func.
\* faulty variant: never looks the key up, always takes the Sender arm
GetStateAlwaysSender(c, k) ==
    LET e == Len(chans) + 1
    IN  /\ chans' = Append(chans, NewChannel(k))
        /\ map' = [map EXCEPT ![k] = e]
        /\ tx' = [tx EXCEPT ![c] = e]
        /\ guard' = [guard EXCEPT ![c] = TRUE]
        /\ invoked' = [invoked EXCEPT ![k] = @ + 1]
        /\ joined' = [joined EXCEPT ![c] = e]
        /\ pc' = [pc EXCEPT ![c] = "func"]
        /\ UNCHANGED rx

GetState(c, k) ==
    LET e == Len(chans) + 1
    IN  IF map[k] # NoCh
        THEN /\ rx' = [rx EXCEPT ![c] = CloneRx(map[k])]
             /\ chans' = [chans EXCEPT ![map[k]].rxCount = @ + 1]
             /\ joined' = [joined EXCEPT ![c] = map[k]]
             /\ pc' = [pc EXCEPT ![c] = "waiting"]
             /\ UNCHANGED <<map, tx, guard, invoked>>
        ELSE /\ chans' = Append(chans, NewChannel(k))
             /\ map' = [map EXCEPT ![k] = e]
             /\ tx' = [tx EXCEPT ![c] = e]
             /\ guard' = [guard EXCEPT ![c] = TRUE]
             /\ invoked' = [invoked EXCEPT ![k] = @ + 1]
             /\ joined' = [joined EXCEPT ![c] = e]
             /\ pc' = [pc EXCEPT ![c] = "func"]
             /\ UNCHANGED rx

\* history: some leader of k has already dropped its Guard
LeaderLeft(k) == \E e \in 1..Len(chans) : chans[e].key = k /\ map[k] # e

\* a caller calls Group::run(k, func): the first poll enters the loop and
\* runs get_state
Call(c, k) ==
    /\ pc[c] = "idle"
    /\ key' = [key EXCEPT ![c] = k]
    /\ late' = IF LeaderLeft(k) THEN late \cup {k} ELSE late
    /\ GetState(c, k)
    /\ UNCHANGED <<res, ret, aborted, wokeFrom, sendSkipped>>

\* a follower that fell out of the match runs get_state again
Retry(c) ==
    /\ pc[c] = "acquire"
    /\ GetState(c, key[c])
    /\ UNCHANGED <<key, res, ret, aborted, late, wokeFrom, sendSkipped>>

\* Guard::drop: remove the key's slot from the map; the Receiver stored in
\* the slot is dropped with it
\* faulty variant: the drop does not remove the slot
GuardDropKeepsSlot(m, cs, k) == <<m, cs>>
GuardDrop(m, cs, k) ==
    IF m[k] = NoCh THEN <<m, cs>>
    ELSE <<[m EXCEPT ![k] = NoCh], DropRx(cs, m[k])>>

\* the value the leader's func produces: a token of this execution
FuncResult(c) == tx[c]

\* faulty variant: the Guard is not dropped before the send
LeaderFuncDoneKeepsSlot(c) ==
    /\ pc[c] = "func"
    /\ res' = [res EXCEPT ![c] = FuncResult(c)]
    /\ pc' = [pc EXCEPT ![c] = "check"]
    /\ UNCHANGED <<key, map, chans, guard, rx, tx, ret, invoked, joined,
                   aborted, late, wokeFrom, sendSkipped>>

\* `let res = func().await; drop(guard);`
LeaderFuncDone(c) ==
    LET g == GuardDrop(map, chans, key[c])
    IN  /\ pc[c] = "func"
        /\ res' = [res EXCEPT ![c] = FuncResult(c)]
        /\ map' = g[1]
        /\ chans' = g[2]
        /\ guard' = [guard EXCEPT ![c] = FALSE]
        /\ pc' = [pc EXCEPT ![c] = "check"]
        /\ UNCHANGED <<key, rx, tx, ret, invoked, joined, aborted, late,
                       wokeFrom, sendSkipped>>

\* `if !tx.is_closed()`
LeaderCheckClosed(c) ==
    /\ pc[c] = "check"
    /\ IF TxIsClosed(tx[c])
       THEN /\ pc' = [pc EXCEPT ![c] = "return"]
            /\ sendSkipped' = sendSkipped \cup {tx[c]}
       ELSE /\ pc' = [pc EXCEPT ![c] = "send"]
            /\ UNCHANGED sendSkipped
    /\ UNCHANGED <<key, map, chans, rx, tx, guard, res, ret, invoked,
                   joined, aborted, late, wokeFrom>>

\* `let _ = tx.send(Some(res.clone()));`
LeaderSend(c) ==
    /\ pc[c] = "send"
    /\ chans' = TxSend(chans, tx[c], res[c])
    /\ pc' = [pc EXCEPT ![c] = "return"]
    /\ UNCHANGED <<key, map, rx, tx, guard, res, ret, invoked,
                   joined, aborted, late, wokeFrom, sendSkipped>>

\* `return res;` the Sender goes out of scope
LeaderReturn(c) ==
    /\ pc[c] = "return"
    /\ chans' = DropTx(chans, tx[c])
    /\ tx' = [tx EXCEPT ![c] = NoCh]
    /\ ret' = [ret EXCEPT ![c] = res[c]]
    /\ pc' = [pc EXCEPT ![c] = "done"]
    /\ UNCHANGED <<key, map, rx, guard, res, invoked,
                   joined, aborted, late, wokeFrom, sendSkipped>>

\* faulty variant: no scoped guard, an abandoned leader leaves its slot
LeaderAbortNoGuard(c) ==
    /\ pc[c] = "func"
    /\ aborted' = aborted \cup {tx[c]}
    /\ pc' = [pc EXCEPT ![c] = "aborted"]
    /\ UNCHANGED <<key, map, chans, guard, rx, tx, res, ret, invoked,
                   joined, late, wokeFrom, sendSkipped>>

\* the leader's future is dropped at `func().await` (the caller was
\* cancelled) or func panics and the stack unwinds: the Guard is dropped
\* first ...
LeaderAbort(c) ==
    LET g == GuardDrop(map, chans, key[c])
    IN  /\ pc[c] = "func"
        /\ map' = g[1]
        /\ chans' = g[2]
        /\ guard' = [guard EXCEPT ![c] = FALSE]
        /\ aborted' = aborted \cup {tx[c]}
        /\ pc' = [pc EXCEPT ![c] = "aborted"]
        /\ UNCHANGED <<key, rx, tx, res, ret, invoked, joined, late,
                       wokeFrom, sendSkipped>>

\* ... and then the Sender, which wakes the followers with Err
LeaderAbortDropTx(c) ==
    /\ pc[c] = "aborted"
    /\ tx[c] # NoCh
    /\ chans' = DropTx(chans, tx[c])
    /\ tx' = [tx EXCEPT ![c] = NoCh]
    /\ UNCHANGED <<pc, key, map, rx, guard, res, ret, invoked,
                   joined, aborted, late, wokeFrom, sendSkipped>>

\* faulty variant: the follower returns whatever the channel holds
FollowerWakeNoRetry(c) ==
    LET r == rx[c]
        v == chans[r.ch].val
    IN  /\ pc[c] = "waiting"
        /\ ChangedOk(r) \/ ChangedErr(r)
        /\ chans' = DropRx(chans, r.ch)
        /\ rx' = [rx EXCEPT ![c] = NoRx]
        /\ ret' = [ret EXCEPT ![c] = v]
        /\ pc' = [pc EXCEPT ![c] = "done"]
        /\ UNCHANGED <<key, map, tx, guard, res, invoked, joined,
                       aborted, late, wokeFrom, sendSkipped>>

\* the follower's `rx.changed().await` completes:
\*   Ok and the borrowed value is Some(res): return res;
\*   Ok and None, or Err: fall out of the match and loop.
\* The Receiver is dropped at the end of the arm either way.
FollowerWake(c) ==
    LET r == rx[c]
        v == chans[r.ch].val
    IN  /\ pc[c] = "waiting"
        /\ ChangedOk(r) \/ ChangedErr(r)
        /\ chans' = DropRx(chans, r.ch)
        /\ rx' = [rx EXCEPT ![c] = NoRx]
        /\ IF ChangedOk(r) /\ v # None
           THEN /\ ret' = [ret EXCEPT ![c] = v]
                /\ pc' = [pc EXCEPT ![c] = "done"]
                /\ UNCHANGED wokeFrom
           ELSE /\ pc' = [pc EXCEPT ![c] = "acquire"]
                /\ wokeFrom' = [wokeFrom EXCEPT ![c] = r.ch]
                /\ UNCHANGED ret
        /\ UNCHANGED <<key, map, tx, guard, res, invoked, joined, aborted,
                       late, sendSkipped>>

\* faulty variant: a cancelled follower removes the slot as a guard would
FollowerCancelRemovesSlot(c) ==
    LET g == GuardDrop(map, DropRx(chans, rx[c].ch), key[c])
    IN  /\ pc[c] = "waiting"
        /\ map' = g[1]
        /\ chans' = g[2]
        /\ rx' = [rx EXCEPT ![c] = NoRx]
        /\ pc' = [pc EXCEPT ![c] = "cancelled"]
        /\ UNCHANGED <<key, tx, guard, res, ret, invoked, joined,
                       aborted, late, wokeFrom, sendSkipped>>

\* a follower's future is dropped at `rx.changed().await`: only its
\* Receiver clone goes away
FollowerCancel(c) ==
    /\ pc[c] = "waiting"
    /\ chans' = DropRx(chans, rx[c].ch)
    /\ rx' = [rx EXCEPT ![c] = NoRx]
    /\ pc' = [pc EXCEPT ![c] = "cancelled"]
    /\ UNCHANGED <<key, map, tx, guard, res, ret, invoked, joined, aborted,
                   late, wokeFrom, sendSkipped>>

\* ========================================================================
\* cache::memory::MemoryCache
\* ========================================================================

\* fingerprints: memory::Key values (input, options)
Fps == {"f1", "f2", "f3"}
\* ImageOutput values: `tag` stands for the content, `len` is buf.len()
Tags == {1, 2}
Lens == 1..(MaxBytes + 1)
Outputs == [tag : Tags, len : Lens]
\* Option<ImageOutput>::None
NoOut == [tag |-> 0, len |-> 0]

RECURSIVE SumLen(_)
SumLen(l) == IF l = <<>> THEN 0 ELSE Head(l).v.len + SumLen(Tail(l))

LruKeys(l) == {l[i].k : i \in 1..Len(l)}
LruIndex(l, f) == CHOOSE i \in 1..Len(l) : l[i].k = f
LruRemove(l, i) == SubSeq(l, 1, i - 1) \o SubSeq(l, i + 1, Len(l))

\* LruCache::peek: the value held for f, without touching the order
LruPeek(l, f) == IF f \in LruKeys(l) THEN l[LruIndex(l, f)].v ELSE NoOut

\* faulty variant: a hit leaves the order of use as it is
LruGetNoPromote(l, f) ==
    IF f \in LruKeys(l) THEN [lru |-> l, out |-> l[LruIndex(l, f)].v]
                         ELSE [lru |-> l, out |-> NoOut]

\* LruCache::get: the value held for f; the entry becomes most recent
LruGet(l, f) ==
    IF f \in LruKeys(l)
    THEN LET i == LruIndex(l, f)
         IN  [lru |-> <<l[i]>> \o LruRemove(l, i), out |-> l[i].v]
    ELSE [lru |-> l, out |-> NoOut]

\* LruCache::put: insert or replace; the entry becomes most recent and the
\* replaced value, if any, is returned
LruPut(l, f, x) ==
    IF f \in LruKeys(l)
    THEN LET i == LruIndex(l, f)
         IN  [lru |-> <<[k |-> f, v |-> x]>> \o LruRemove(l, i), old |-> l[i].v]
    ELSE [lru |-> <<[k |-> f, v |-> x]>> \o l, old |-> NoOut]

\* LruCache::pop_lru: remove and return the least recently used entry
\* faulty variant: pops the most recently used entry
LruPopMru(l) == [lru |-> Tail(l), val |-> Head(l).v]
LruPopLru(l) == [lru |-> SubSeq(l, 1, Len(l) - 1), val |-> l[Len(l)].v]

\* the `while guard.size > guard.max` loop of MemoryCache::set; `popped`
\* counts the entries it removed
\* faulty variant: `if` instead of `while`
EvictLoopOnce(l, s) ==
    IF s > MaxBytes /\ l # <<>>
    THEN LET p == LruPopLru(l)
         IN  IF s < p.val.len
             THEN [lru |-> p.lru, size |-> s, panic |-> TRUE, popped |-> 1]
             ELSE [lru |-> p.lru, size |-> s - p.val.len, panic |-> FALSE,
                   popped |-> 1]
    ELSE [lru |-> l, size |-> s, panic |-> FALSE, popped |-> 0]

\* faulty variant: stops when one entry is left (retains an oversized one)
RECURSIVE EvictLoopKeepLast(_, _)
EvictLoopKeepLast(l, s) ==
    IF s > MaxBytes
    THEN IF Len(l) <= 1
         THEN [lru |-> l, size |-> s, panic |-> FALSE, popped |-> 0]
         ELSE LET p == LruPopLru(l)
              IN  IF s < p.val.len
                  THEN [lru |-> p.lru, size |-> s, panic |-> TRUE,
                        popped |-> 1]
                  ELSE LET r == EvictLoopKeepLast(p.lru, s - p.val.len)
                       IN  [r EXCEPT !.popped = @ + 1]
    ELSE [lru |-> l, size |-> s, panic |-> FALSE, popped |-> 0]

RECURSIVE EvictLoop(_, _)
EvictLoop(l, s) ==
    IF s > MaxBytes
    THEN IF l = <<>>
         THEN [lru |-> l, size |-> s, panic |-> FALSE, popped |-> 0]
         ELSE LET p == LruPopLru(l)
              IN  IF s < p.val.len
                  THEN [lru |-> p.lru, size |-> s, panic |-> TRUE,
                        popped |-> 1]
                  ELSE LET r == EvictLoop(p.lru, s - p.val.len)
                       IN  [r EXCEPT !.popped = @ + 1]
    ELSE [lru |-> l, size |-> s, panic |-> FALSE, popped |-> 0]

\* the body of MemoryCache::set up to the loop: charge the new buffer,
\* put, and subtract the replaced buffer (checked)
\* faulty variant: the replaced buffer is not subtracted
SetChargeNoSub(l, s, f, x) ==
    [lru |-> LruPut(l, f, x).lru, size |-> s + x.len, panic |-> FALSE,
     old |-> LruPut(l, f, x).old]

SetCharge(l, s, f, x) ==
    LET s1 == s + x.len
        p == LruPut(l, f, x)
    IN  IF p.old = NoOut
        THEN [lru |-> p.lru, size |-> s1, panic |-> FALSE, old |-> p.old]
        ELSE IF s1 < p.old.len
             THEN [lru |-> p.lru, size |-> s1, panic |-> TRUE, old |-> p.old]
             ELSE [lru |-> p.lru, size |-> s1 - p.old.len, panic |-> FALSE,
                   old |-> p.old]

\* MemoryCache::set(input, options, output), under the mutex. memLast
\* records the call, the value LruCache::put returned and the number of
\* entries the loop popped.
Set(f, x) ==
    LET c == SetCharge(lru, size, f, x)
        e == IF c.panic
             THEN [lru |-> c.lru, size |-> c.size, panic |-> TRUE, popped |-> 0]
             ELSE EvictLoop(c.lru, c.size)
    IN  /\ ~memPanic
        /\ lru' = e.lru
        /\ size' = e.size
        /\ memPanic' = e.panic
        /\ memLast' = [op |-> "set", k |-> f, out |-> x, old |-> c.old,
                       popped |-> e.popped]
        /\ lastSet' = [lastSet EXCEPT ![f] = x]

\* MemoryCache::get(input, options), under the mutex
Get(f) ==
    LET g == LruGet(lru, f)
    IN  /\ ~memPanic
        /\ lru' = g.lru
        /\ memLast' = [op |-> "get", k |-> f, out |-> g.out, old |-> NoOut,
                       popped |-> 0]
        /\ UNCHANGED <<size, memPanic, lastSet>>

\* ========================================================================
\* cache::disk::DiskCache: the entry file format (src/src/cache/disk.rs)
\* ========================================================================

\* an ImageOutput as the disk cache sees it: `meta` stands for the fields
\* serde serialises (img_type, width, ...), `buf` for the encoded image,
\* which is #[serde(skip)]
ImageBuf(x) == [i \in 1..x.len |-> 16 * x.tag + i]
ImageOutput(x) == [meta |-> x.tag, buf |-> ImageBuf(x)]
NoImage == [meta |-> 0, buf |-> <<>>]

\* the length written least significant byte first
U32ToLeBytes(n) ==
    <<n % 256, (n \div 256) % 256, (n \div 65536) % 256,
      (n \div 16777216) % 256>>

\* u32::to_be_bytes
U32ToBeBytes(n) ==
    <<(n \div 16777216) % 256, (n \div 65536) % 256, (n \div 256) % 256,
      n % 256>>

\* u32::from_be_bytes of the first four bytes of d
U32FromBeBytes(d) ==
    d[1] * 16777216 + d[2] * 65536 + d[3] * 256 + d[4]

\* serde_json::to_vec(&output): an object holding the serialised fields,
\* "{" meta "}"
JsonToVec(o) == <<123, o.meta, 125>>

\* serde_json::from_slice::<ImageOutput>: the whole slice must be one
\* object; anything else (trailing bytes, a cut object) is an error
JsonFromSlice(s) ==
    IF Len(s) = 3 /\ s[1] = 123 /\ s[3] = 125 /\ s[2] \in Tags
        THEN [ok |-> TRUE, meta |-> s[2]]
        ELSE [ok |-> FALSE, meta |-> 0]

\* set_inner: `contents` = 4-byte big-endian length, then the metadata
SetInnerContents(o) == U32ToBeBytes(Len(JsonToVec(o))) \o JsonToVec(o)

\* the bytes of the file set_inner leaves when every write succeeded
EntryBytes(o) == SetInnerContents(o) \o o.buf

NoFile == [exists |-> FALSE, data |-> <<>>]
\* history of a path: no file / being written / written / partial / cut
NoOrigin == [state |-> "absent", out |-> NoImage]

\* get_inner(path): None for a missing file, an error for a malformed
\* one, otherwise the parsed metadata with every byte after it as `buf`
GetInner(file) ==
    IF ~file.exists THEN [kind |-> "none", out |-> NoImage]
    ELSE IF Len(file.data) < 4 THEN [kind |-> "err", out |-> NoImage]
    ELSE LET meta_length == U32FromBeBytes(file.data)
             parsed == JsonFromSlice(SubSeq(file.data, 5, 4 + meta_length))
         IN  IF Len(file.data) < meta_length + 4 \/ ~parsed.ok
                 THEN [kind |-> "err", out |-> NoImage]
                 ELSE [kind |-> "hit",
                       out |-> [meta |-> parsed.meta,
                                buf |-> SubSeq(file.data, 5 + meta_length,
                                               Len(file.data))]]

\* ========================================================================
\* cache::disk::DiskCache: get, set and the jobs they run on the blocking
\* pool.  The caller's future holds the permit and awaits the job; when
\* the future is dropped the permit goes back, the job runs on.
\* ========================================================================

\* AtomicU64 arithmetic wraps; the counter's width is scaled down to 20 bits
CounterModulus == 1048576

\* the paths in use and the outputs written (entries of 8 and 9 bytes)
DiskPaths == {"f1", "f2"}
DiskOutputs == {[tag |-> 1, len |-> 1], [tag |-> 2, len |-> 2]}

NoRes == [kind |-> "none", out |-> NoImage, added |-> 0]
NoJob == [st |-> "none", att |-> FALSE, r |-> NoRes, saw |-> NoOrigin]
NoOp == [kind |-> "none", f |-> "f1", x |-> NoOut]

\* the callers of DiskCache::get / ::set
DiskClients == {c \in Callers : c <= NumDiskCalls}

\* jobs that are in the middle of their file operation on the blocking
\* pool: the file is open and not yet written to its end
RunningJobs == {c \in Callers : job[c].st \in {"contents", "buf"}}

\* the call is made: get(input, ops) / set(input, ops, output) reach
\* sema.acquire().await
DiskCall(c, kind, f, x) ==
    /\ dpc[c] = "idle"
    /\ dpc' = [dpc EXCEPT ![c] = "acquire"]
    /\ dop' = [dop EXCEPT ![c] = [kind |-> kind, f |-> f, x |-> x]]
    /\ UNCHANGED <<dpermit, job, dret, cur_size, files, origin>>

\* the permit is granted and the job is handed to spawn_blocking
DiskAcquire(c) ==
    /\ dpc[c] = "acquire"
    /\ Cardinality(dpermit) < DiskPermits
    /\ dpermit' = dpermit \cup {c}
    /\ dpc' = [dpc EXCEPT ![c] = "await"]
    /\ job' = [job EXCEPT ![c] =
                 [NoJob EXCEPT !.st = IF dop[c].kind = "get" THEN "read"
                                                           ELSE "create"]]
    /\ UNCHANGED <<dop, dret, cur_size, files, origin>>

\* get_inner runs: one std::fs::read of the path
JobRead(c) ==
    /\ job[c].st = "read"
    /\ LET g == GetInner(files[dop[c].f])
       IN  job' = [job EXCEPT ![c] =
                     [st |-> "finished", att |-> FALSE,
                      r |-> [kind |-> g.kind, out |-> g.out, added |-> 0],
                      saw |-> origin[dop[c].f]]]
    /\ UNCHANGED <<dpc, dop, dpermit, dret, cur_size, files, origin>>

\* create_file opens the path without create_new: an existing file is
\* opened for writing
JobCreateReopens(c) ==
    /\ job[c].st = "create"
    /\ LET f == dop[c].f
       IN  /\ job' = [job EXCEPT ![c].st = "contents", ![c].att = TRUE,
                                 ![c].saw = origin[f]]
           /\ files' = [files EXCEPT ![f].exists = TRUE]
           /\ origin' = [origin EXCEPT ![f] =
                           IF files[f].exists THEN origin[f]
                           ELSE [state |-> "writing",
                                 out |-> ImageOutput(dop[c].x)]]
    /\ UNCHANGED <<dpc, dop, dpermit, dret, cur_size>>

\* set_inner: create_file(path) with create_new(true); an existing file
\* makes set_inner return the AlreadyExists error
JobCreate(c) ==
    /\ job[c].st = "create"
    /\ LET f == dop[c].f
       IN  IF files[f].exists
               THEN /\ job' = [job EXCEPT ![c].st = "finished",
                                          ![c].r.kind = "err",
                                          ![c].saw = origin[f]]
                    /\ UNCHANGED <<files, origin>>
               ELSE /\ job' = [job EXCEPT ![c].st = "contents",
                                          ![c].att = TRUE,
                                          ![c].saw = origin[f]]
                    /\ files' = [files EXCEPT ![f] = [exists |-> TRUE,
                                                      data |-> <<>>]]
                    /\ origin' = [origin EXCEPT ![f] =
                                    [state |-> "writing",
                                     out |-> ImageOutput(dop[c].x)]]
    /\ UNCHANGED <<dpc, dop, dpermit, dret, cur_size>>

\* what a write through the job's handle does to the file at the path: an
\* unlinked file takes the bytes with it
WriteAll(c, bytes) ==
    IF job[c].att
        THEN [files EXCEPT ![dop[c].f].data = @ \o bytes]
        ELSE files

\* set_inner: file.write_all(&contents)
JobWriteContents(c) ==
    /\ job[c].st = "contents"
    /\ files' = WriteAll(c, SetInnerContents(ImageOutput(dop[c].x)))
    /\ job' = [job EXCEPT ![c].st = "buf"]
    /\ UNCHANGED <<dpc, dop, dpermit, dret, cur_size, origin>>

\* set_inner: file.write_all(&output.buf), flush, Ok(length written)
JobWriteBuf(c) ==
    /\ job[c].st = "buf"
    /\ LET o == ImageOutput(dop[c].x)
       IN  /\ files' = WriteAll(c, o.buf)
           /\ job' = [job EXCEPT ![c].st = "finished", ![c].r.kind = "ok",
                                 ![c].r.added =
                                     Len(SetInnerContents(o)) + Len(o.buf)]
    /\ origin' = IF job[c].att
                     THEN [origin EXCEPT ![dop[c].f].state = "written"]
                     ELSE origin
    /\ UNCHANGED <<dpc, dop, dpermit, dret, cur_size>>

\* set turns the error of its job into a success
DiskReturnIdempotent(c) ==
    /\ dpc[c] = "await"
    /\ job[c].st = "finished"
    /\ dret' = [dret EXCEPT ![c] = IF job[c].r.kind = "err" THEN "ok"
                                   ELSE job[c].r.kind]
    /\ cur_size' = (cur_size + job[c].r.added) % CounterModulus
    /\ dpermit' = dpermit \ {c}
    /\ dpc' = [dpc EXCEPT ![c] = "done"]
    /\ UNCHANGED <<dop, job, files, origin>>

\* the caller's future resumes with the job's result (`?` hands an error
\* on); set adds the written length to cur_size only after Ok; the permit
\* is dropped on return
DiskReturn(c) ==
    /\ dpc[c] = "await"
    /\ job[c].st = "finished"
    /\ dret' = [dret EXCEPT ![c] = job[c].r.kind]
    /\ cur_size' = (cur_size + job[c].r.added) % CounterModulus
    /\ dpermit' = dpermit \ {c}
    /\ dpc' = [dpc EXCEPT ![c] = "done"]
    /\ UNCHANGED <<dop, job, files, origin>>

\* the caller's future is dropped while it waits for the permit or for
\* the job: a held permit is released, a submitted job is not stopped
DiskCancel(c) ==
    /\ dpc[c] \in {"acquire", "await"}
    /\ dpermit' = dpermit \ {c}
    /\ dpc' = [dpc EXCEPT ![c] = "cancelled"]
    /\ UNCHANGED <<dop, job, dret, cur_size, files, origin>>

\* ---- the cleaner task (start_cleaner, clean, remove_files) ------------

WrappingSub(a, b) == (a - b + CounterModulus) % CounterModulus

ExistingPaths == {f \in DiskPaths : files[f].exists}
FileLen(f) == Len(files[f].data)

\* the orders in which a batch can meet the files of the store: the sample
\* is random and sorted by access time
Orders(S) ==
    {o \in [1..Cardinality(S) -> S] :
        \A i, j \in 1..Cardinality(S) : i # j => o[i] # o[j]}

RECURSIVE SumFileLen(_)
SumFileLen(S) ==
    IF S = {} THEN 0
    ELSE LET f == CHOOSE g \in S : TRUE
         IN  FileLen(f) + SumFileLen(S \ {f})

\* history of a pass: cur_size at its start, the bytes it subtracted from
\* cur_size so far, the bytes its unlinked files held
NoPass == [start |-> 0, counted |-> 0, unlinked |-> 0]

\* remove_file(path): the path loses its file; a job that still writes it
\* keeps its handle on the unlinked file
Unlink(f) ==
    /\ files' = [files EXCEPT ![f] = NoFile]
    /\ origin' = [origin EXCEPT ![f] = NoOrigin]
    /\ job' = [c \in Callers |->
                 IF dop[c].f = f THEN [job[c] EXCEPT !.att = FALSE]
                                 ELSE job[c]]

\* get_initial_size: the walk sums the lengths of the files it finds
CleanerScan ==
    /\ cl.pc = "scan"
    /\ cl' = [cl EXCEPT !.pc = "add", !.removed = SumFileLen(ExistingPaths)]
    /\ UNCHANGED <<pass, dpc, dop, dpermit, job, dret, cur_size, files,
                   origin>>

\* start_cleaner: cur_size.fetch_add(size)
CleanerAdd ==
    /\ cl.pc = "add"
    /\ cur_size' = (cur_size + cl.removed) % CounterModulus
    /\ cl' = [cl EXCEPT !.pc = "tick", !.removed = 0]
    /\ UNCHANGED <<pass, dpc, dop, dpermit, job, dret, files, origin>>

\* clean: load cur_size; within budget the pass is over at once (sleep),
\* otherwise the removal loop starts with to_remove = cur_size - max_size
CleanerTick ==
    /\ cl.pc = "tick"
    /\ cur_size > DiskMaxSize
    /\ cl' = [cl EXCEPT !.pc = "batch",
                        !.to_remove = cur_size - DiskMaxSize,
                        !.removed = 0]
    /\ pass' = [NoPass EXCEPT !.start = cur_size]
    /\ UNCHANGED <<dpc, dop, dpermit, job, dret, cur_size, files, origin>>

\* remove_files: the candidates are collected with their metadata (the
\* length each file has now) and sorted
CleanerSample ==
    /\ cl.pc = "batch"
    /\ cl.removed < cl.to_remove
    /\ \E o \in Orders(ExistingPaths) :
         cl' = [cl EXCEPT !.pc = "unlink", !.batch = 0,
                          !.cand = [i \in DOMAIN o |->
                                      [f |-> o[i], size |-> FileLen(o[i])]]]
    /\ UNCHANGED <<pass, dpc, dop, dpermit, job, dret, cur_size, files,
                   origin>>

\* remove_files: remove_file on the next candidate; `removed` grows by the
\* length read when the candidates were collected; the batch ends when
\* the target is met or the candidates are used up
CleanerUnlink ==
    /\ cl.pc = "unlink"
    /\ cl.cand # <<>>
    /\ LET e == Head(cl.cand)
           batch == cl.batch + e.size
           over == batch >= cl.to_remove - cl.removed
                   \/ Tail(cl.cand) = <<>>
       IN  /\ Unlink(e.f)
           /\ pass' = [pass EXCEPT !.unlinked = @ + FileLen(e.f)]
           /\ cl' = IF over
                        THEN [cl EXCEPT !.pc = "batch", !.cand = <<>>,
                                        !.batch = 0,
                                        !.removed = @ + batch]
                        ELSE [cl EXCEPT !.cand = Tail(@), !.batch = batch]
    /\ UNCHANGED <<dpc, dop, dpermit, dret, cur_size>>

\* remove_files found no candidate: it returns 0
CleanerNoCandidate ==
    /\ cl.pc = "unlink"
    /\ cl.cand = <<>>
    /\ cl' = [cl EXCEPT !.pc = "batch"]
    /\ UNCHANGED <<pass, dpc, dop, dpermit, job, dret, cur_size, files,
                   origin>>

\* clean: old = cur_size.fetch_sub(removed); old.checked_sub(removed)
\* panics on underflow; the pass returns when the difference is within
\* budget and goes round the removal loop again otherwise
CleanerDecrement ==
    /\ cl.pc = "batch"
    /\ cl.removed >= cl.to_remove
    /\ LET old == cur_size
           new == old - cl.removed
       IN  /\ cur_size' = WrappingSub(old, cl.removed)
           /\ pass' = IF new >= 0 /\ new <= DiskMaxSize
                          THEN NoPass
                          ELSE [pass EXCEPT !.counted = @ + cl.removed]
           /\ cl' = IF new < 0
                        THEN [cl EXCEPT !.pc = "panicked"]
                    ELSE IF new <= DiskMaxSize
                        THEN [cl EXCEPT !.pc = "tick", !.to_remove = 0,
                                        !.removed = 0]
                        ELSE [cl EXCEPT !.to_remove = new - DiskMaxSize,
                                        !.removed = 0]
    /\ UNCHANGED <<dpc, dop, dpermit, job, dret, files, origin>>

outsideDisk == <<sfVars, memVars, fmtLast, pipeVars, reqVars, http, fpr, args>>

\* calls of get and set, with cancellation
NextDisk ==
    \/ \E c \in DiskClients, f \in DiskPaths :
         DiskCall(c, "get", f, NoOut) /\ UNCHANGED <<outsideDisk, cleanVars>>
    \/ \E c \in DiskClients, f \in DiskPaths, x \in DiskOutputs :
         DiskCall(c, "set", f, x) /\ UNCHANGED <<outsideDisk, cleanVars>>
    \/ \E c \in Callers : DiskAcquire(c) /\ UNCHANGED <<outsideDisk, cleanVars>>
    \/ \E c \in Callers : JobRead(c) /\ UNCHANGED <<outsideDisk, cleanVars>>
    \/ \E c \in Callers : JobCreate(c) /\ UNCHANGED <<outsideDisk, cleanVars>>
    \/ \E c \in Callers :
         JobWriteContents(c) /\ UNCHANGED <<outsideDisk, cleanVars>>
    \/ \E c \in Callers : JobWriteBuf(c) /\ UNCHANGED <<outsideDisk, cleanVars>>
    \/ \E c \in Callers : DiskReturn(c) /\ UNCHANGED <<outsideDisk, cleanVars>>
    \/ \E c \in Callers : DiskCancel(c) /\ UNCHANGED <<outsideDisk, cleanVars>>

\* the outputs set is called with for a path next to the cleaner: the
\* image behind f1 changes between the calls, the image behind the other
\* path does not
OutputsAt(f) == IF f = "f1" THEN DiskOutputs ELSE {[tag |-> 2, len |-> 2]}

\* calls of set that run to their end, next to the cleaner task
NextClean ==
    \/ \E c \in DiskClients, f \in DiskPaths :
         \E x \in OutputsAt(f) :
             DiskCall(c, "set", f, x) /\ UNCHANGED <<outsideDisk, cleanVars>>
    \/ \E c \in Callers : DiskAcquire(c) /\ UNCHANGED <<outsideDisk, cleanVars>>
    \/ \E c \in Callers : JobCreate(c) /\ UNCHANGED <<outsideDisk, cleanVars>>
    \/ \E c \in Callers :
         JobWriteContents(c) /\ UNCHANGED <<outsideDisk, cleanVars>>
    \/ \E c \in Callers : JobWriteBuf(c) /\ UNCHANGED <<outsideDisk, cleanVars>>
    \/ \E c \in Callers : DiskReturn(c) /\ UNCHANGED <<outsideDisk, cleanVars>>
    \/ CleanerScan /\ UNCHANGED outsideDisk
    \/ CleanerAdd /\ UNCHANGED outsideDisk
    \/ CleanerTick /\ UNCHANGED outsideDisk
    \/ CleanerSample /\ UNCHANGED outsideDisk
    \/ CleanerUnlink /\ UNCHANGED outsideDisk
    \/ CleanerNoCandidate /\ UNCHANGED outsideDisk
    \/ CleanerDecrement /\ UNCHANGED outsideDisk

\* a step of the cleaner task or of its blocking jobs
CleanerStep ==
    \/ CleanerScan \/ CleanerAdd \/ CleanerTick \/ CleanerSample
    \/ CleanerUnlink \/ CleanerNoCandidate \/ CleanerDecrement

\* a step of the set call of c after it was made
SetStep(c) ==
    \/ DiskAcquire(c) \/ JobCreate(c) \/ JobWriteContents(c)
    \/ JobWriteBuf(c) \/ DiskReturn(c)

\* the cleaner task and its blocking jobs are scheduled whenever they can
\* make a step, and so is every set call that was made; no call of set
\* is forced
FairClean ==
    /\ WF_vars(CleanerStep /\ UNCHANGED outsideDisk)
    /\ \A c \in Callers :
         WF_vars(SetStep(c) /\ UNCHANGED <<outsideDisk, cleanVars>>)

\* ---- entry files at rest: get_inner applied to what a write left -------

\* the path the format specification works on
FmtPaths == {"f1"}

\* set_inner(path, output) run to its end on a path that has no file
FmtSet(f, x) ==
    /\ ~files[f].exists
    /\ files' = [files EXCEPT ![f] = [exists |-> TRUE,
                                      data |-> EntryBytes(ImageOutput(x))]]
    /\ origin' = [origin EXCEPT ![f] = [state |-> "written",
                                        out |-> ImageOutput(x)]]
    /\ UNCHANGED fmtLast

\* the file loses its last byte: set_inner writes `contents` and `buf`
\* with two write_all calls and no rename, so every prefix of an entry is
\* a file the store can hold (a write that failed or was interrupted)
FmtCut(f) ==
    /\ files[f].exists
    /\ Len(files[f].data) > 0
    /\ files' = [files EXCEPT ![f].data =
                     SubSeq(files[f].data, 1, Len(files[f].data) - 1)]
    /\ origin' = [origin EXCEPT ![f].state = "cut"]
    /\ UNCHANGED fmtLast

\* get_inner(path) on the file as it is
FmtGet(f) ==
    /\ fmtLast' = [op |-> "get", f |-> f, state |-> origin[f].state,
                   wrote |-> origin[f].out, r |-> GetInner(files[f])]
    /\ UNCHANGED <<files, origin>>

outsideFmt == <<sfVars, memVars, diskVars, cleanVars, pipeVars, reqVars,
               http, fpr, args>>

NextFmt ==
    \/ \E f \in FmtPaths, x \in Outputs : FmtSet(f, x) /\ UNCHANGED outsideFmt
    \/ \E f \in FmtPaths : FmtCut(f) /\ UNCHANGED outsideFmt
    \/ \E f \in FmtPaths : FmtGet(f) /\ UNCHANGED outsideFmt

\* ========================================================================
\* signature::Verifier, Handler::verify and the HTTP handlers of main.rs
\* ========================================================================

\* a string is a sequence of tokens; a raw query is Option<&str>: a sequence
\* of raw (still encoded) pairs, or absent
RawKeys == {"a", "b", "s"}
RawVals == {"1", "2", "+", "%20"}
\* the raw value that stands for the hex signature in the pair with key s
SigToken == "sig"
RawPairs ==
    {[k |-> k, v |-> v] : k \in RawKeys \ {"s"}, v \in RawVals}
        \cup {[k |-> "s", v |-> SigToken]}
SeqsUpTo(S, n) == UNION {[1..m -> S] : m \in 0..n}
NoQuery == [some |-> FALSE, pairs |-> <<>>]
Queries ==
    {NoQuery} \cup {[some |-> TRUE, pairs |-> q] : q \in SeqsUpTo(RawPairs, MaxPairs)}
\* uri.path() of the two routes, and a path given without its slash
Paths == {<<"/">>, <<"/", "metadata">>, <<"img">>}

\* form_urlencoded decoding and encoding of one token
FormDecode(t) == IF t \in {"+", "%20"} THEN " " ELSE t
FormEncode(t) == IF t = " " THEN "+" ELSE t

\* serde_urlencoded::from_str(raw_query) into Vec<(Cow<str>, Cow<str>)>
FromStr(q) ==
    [i \in 1..Len(q) |-> [k |-> FormDecode(q[i].k), v |-> FormDecode(q[i].v)]]

\* query.retain(|(k, _)| k != "s")
NotS(p) == p.k # "s"
Retain(q) == SelectSeq(q, NotS)

\* String::cmp on the keys
KeyRank(k) == IF k = "a" THEN 1 ELSE IF k = "b" THEN 2 ELSE 3

\* one step of the stable sort: p goes behind every pair whose key is not
\* greater
SortInsert(t, p) ==
    LET n == Cardinality({i \in 1..Len(t) : KeyRank(t[i].k) <= KeyRank(p.k)})
    IN  SubSeq(t, 1, n) \o <<p>> \o SubSeq(t, n + 1, Len(t))

\* query.sort_by(|(k1, _), (k2, _)| k1.cmp(k2)): stable, by key only
RECURSIVE SortByKey(_)
SortByKey(q) ==
    IF q = <<>> THEN <<>>
    ELSE SortInsert(SortByKey(SubSeq(q, 1, Len(q) - 1)), q[Len(q)])

\* serde_urlencoded::to_string(&query)
RECURSIVE UrlToString(_)
UrlToString(q) ==
    IF q = <<>> THEN <<>>
    ELSE LET p == q[Len(q)]
             e == <<FormEncode(p.k), "=", FormEncode(p.v)>>
         IN  IF Len(q) = 1 THEN e
             ELSE UrlToString(SubSeq(q, 1, Len(q) - 1)) \o <<"&">> \o e

\* Verifier::get_message
GetMessage(path, query) ==
    LET out == IF path # <<>> /\ path[1] = "/" THEN path ELSE <<"/">> \o path
    IN  IF query.some
            THEN out \o <<"?">> \o UrlToString(SortByKey(Retain(FromStr(query.pairs))))
            ELSE out

\* the keys the Verifier holds, and the keys a client may sign with
VerifierKeys == {"K1"}
SigningKeys == {"K1", "K2"}

\* what the `s` parameter carries: nothing, bytes that are not the hex of
\* a signature, or the signature of a message under a key
Missing == [kind |-> "missing", key |-> "none", msg |-> <<>>]
Malformed == [kind |-> "malformed", key |-> "none", msg |-> <<>>]
Sign(k, m) == [kind |-> "sig", key |-> k, msg |-> m]

\* PublicKey::verify(msg, &sig).is_ok()
KeyVerify(k, m, s) == s.kind = "sig" /\ s.key = k /\ s.msg = m

\* Verifier::verify: Err for a signature that does not parse, else
\* Ok(true) when some key verifies and Ok(false) when none does
VerifierVerify(path, query, s) ==
    IF s.kind = "malformed" THEN "err"
    ELSE IF \E k \in VerifierKeys : KeyVerify(k, GetMessage(path, query), s)
             THEN "true" ELSE "false"

\* Handler::verify: Ok without a verifier, Err without a signature, else
\* the Result of Verifier::verify (its Ok value is not looked at)
HandlerVerify(v, path, query, s) ==
    IF ~v THEN "ok"
    ELSE IF s.kind = "missing" THEN "err"
    ELSE IF VerifierVerify(path, query, s) = "err" THEN "err" ELSE "ok"

\* the orderings of a query's pairs
Perms(q) ==
    LET n == Len(q.pairs)
        B == {f \in [1..n -> 1..n] : \A i, j \in 1..n : i # j => f[i] # f[j]}
    IN  {[some |-> q.some, pairs |-> [i \in 1..n |-> q.pairs[f[i]]]] : f \in B}

\* the signatures a client may send with (path, query): over the message
\* of the query in any order of its pairs, or of the bare path, with any
\* key it has; or bytes that are no signature
Signatures(path, query) ==
    {Malformed} \cup
    {Sign(k, GetMessage(path, q2)) :
        k \in SigningKeys, q2 \in Perms(query) \cup {NoQuery}}

\* the `s` pairs of a raw query
HasS(query) == \E i \in 1..Len(query.pairs) : query.pairs[i].k = "s"
OneS(query) ==
    Cardinality({i \in 1..Len(query.pairs) : query.pairs[i].k = "s"}) <= 1

NoHttp == [op |-> "new", verifier |-> FALSE, path |-> <<>>, q |-> NoQuery,
           sig |-> Missing, msg |-> <<>>, verdict |-> "none",
           began |-> FALSE]

\* Verifier::verify(path, query, hex_sig) is called
VerifyCall(p, q, s) ==
    /\ http.op = "new"
    /\ http' = [op |-> "verify", verifier |-> TRUE, path |-> p, q |-> q,
                sig |-> s, msg |-> GetMessage(p, q),
                verdict |-> VerifierVerify(p, q, s), began |-> FALSE]

\* main.rs get_image: state.verify(..) first; its Err is answered at
\* once, otherwise state.get_image(..) is called
HttpGetImage(v, q, s) ==
    LET p == <<"/">>
        r == HandlerVerify(v, p, q, s)
    IN  /\ http.op = "new"
        /\ OneS(q)
        /\ HasS(q) <=> s # Missing
        /\ http' = [op |-> "image", verifier |-> v, path |-> p, q |-> q,
                    sig |-> s, msg |-> GetMessage(p, q), verdict |-> r,
                    began |-> (r # "err")]

\* main.rs get_image_metadata: state.get_metadata(..) is called; verify
\* is not
HttpGetMetadata(v, q, s) ==
    LET p == <<"/", "metadata">>
    IN  /\ http.op = "new"
        /\ OneS(q)
        /\ HasS(q) <=> s # Missing
        /\ http' = [op |-> "metadata", verifier |-> v, path |-> p, q |-> q,
                    sig |-> s, msg |-> GetMessage(p, q),
                    verdict |-> "none", began |-> TRUE]

outsideSig == <<sfVars, memVars, fmtVars, diskVars, cleanVars, pipeVars,
                reqVars,
               fpr, args>>

NextSig ==
    \/ \E p \in Paths, q \in Queries :
         \E s \in Signatures(p, q) : VerifyCall(p, q, s) /\ UNCHANGED outsideSig
    \/ \E v \in BOOLEAN, q \in Queries \ {NoQuery} :
         \E s \in {Missing} \cup Signatures(<<"/">>, q) :
             HttpGetImage(v, q, s) /\ UNCHANGED outsideSig
    \/ \E v \in BOOLEAN, q \in Queries \ {NoQuery} :
         \E s \in {Missing} \cup Signatures(<<"/", "metadata">>, q) :
             HttpGetMetadata(v, q, s) /\ UNCHANGED outsideSig

\* ========================================================================
\* the keys of the three layers: handler::Key (single-flight), memory::Key
\* (MemoryCache) and DiskCache::get_file_path
\* ========================================================================

\* Option<T>: None is the empty sequence, Some(v) is <<v>>
Opt(S) == {<<>>} \cup {<<v>> : v \in S}

\* image::ProcessOptions and the (url, options) pairs of the requests
ProcessOptions ==
    [width : Opt({"1", "2"}), height : Opt({"1"}), out_type : Opt({"jpeg"}),
     quality : Opt({"1"}), blur : Opt({"1"})]
Urls == {"u1", "u2"}
Inputs == [url : Urls, ops : ProcessOptions]

\* handler::Key { input, options } with derived Eq and Hash: the key that
\* Handler::get_image hands to Group::run
HandlerKey(url, ops) == [input |-> url, options |-> ops]

\* memory::Key { input, options } with derived Eq and Hash: the key of
\* LruCache in MemoryCache::get and ::set
MemoryKey(url, ops) == [input |-> url, options |-> ops]

\* a field of ProcessOptions written without its name
FieldNoName(name, o) == o

\* a field of ProcessOptions in serde_json: skipped when None
\* (skip_serializing_if), otherwise the name and the value
Field(name, o) == IF o = <<>> THEN <<>> ELSE <<name, o[1]>>

\* serde_json::to_vec(&Key { input, ops })
KeyJson(url, ops) ==
    <<"{", "input", url, "ops", "{">>
        \o Field("width", ops.width) \o Field("height", ops.height)
        \o Field("out_type", ops.out_type) \o Field("quality", ops.quality)
        \o Field("blur", ops.blur) \o <<"}", "}">>

\* get_hash: the blake3 digest of the serialised key; the digest stands
\* for the bytes it was computed from (no two inputs collide)
GetHash(url, ops) == [blake3 |-> KeyJson(url, ops)]

\* get_file_path: dir / shard / shard / hex digest, the shards being
\* characters of the digest
GetFilePath(url, ops) ==
    LET hash == GetHash(url, ops)
    IN  <<"dir", [shard |-> 1, of |-> hash], [shard |-> 2, of |-> hash],
          hash>>

NoFpr == [op |-> "new", a |-> [url |-> "u1", ops |-> <<>>],
          b |-> [url |-> "u1", ops |-> <<>>],
          sf |-> <<>>, mem |-> <<>>, path |-> <<>>]

\* two requests reach Handler::get_image: the key each of them has in the
\* single-flight group, in the memory cache and in the disk cache
KeysOf(a, b) ==
    /\ fpr.op = "new"
    /\ fpr' = [op |-> "keys", a |-> a, b |-> b,
               sf |-> <<HandlerKey(a.url, a.ops), HandlerKey(b.url, b.ops)>>,
               mem |-> <<MemoryKey(a.url, a.ops), MemoryKey(b.url, b.ops)>>,
               path |-> <<GetFilePath(a.url, a.ops),
                          GetFilePath(b.url, b.ops)>>]

outsideKey == <<sfVars, memVars, fmtVars, diskVars, cleanVars, pipeVars,
                reqVars, http, args>>

NextKey == \E a \in Inputs, b \in Inputs : KeysOf(a, b) /\ UNCHANGED outsideKey

\* ========================================================================
\* handler::Handler::get_image: single-flight around get_image_inner
\* (admission permit, MemoryCache, DiskCache, fetch, ImageProccessor)
\* ========================================================================

\* the requests that are made
Requests == {c \in Callers : c <= NumRequests}

\* memory::Key and the disk path of a single-flight key
FpOf(k) == IF k = "k1" THEN "f1" ELSE "f2"

\* what fetching and processing the key's image yields: the output of k1
\* is larger than the memory budget, the output of k2 fits
OutputOf(k) ==
    IF k = "k1" THEN [tag |-> 1, len |-> MaxBytes + 1]
                ELSE [tag |-> 2, len |-> 1]

\* the image bytes are lost on the way
FromImageNoBuf(o) == [tag |-> o.meta, len |-> 0]

\* the pipeline's view of an ImageOutput read from disk
FromImage(o) == [tag |-> o.meta, len |-> Len(o.buf)]

NoResp == [status |-> "none", out |-> NoOut]

\* the result of a finished DiskCache call is taken; the call is over
DiskTake(c) ==
    /\ dpc' = [dpc EXCEPT ![c] = "idle"]
    /\ dop' = [dop EXCEPT ![c] = NoOp]
    /\ job' = [job EXCEPT ![c] = NoJob]
    /\ dret' = [dret EXCEPT ![c] = "none"]
    /\ UNCHANGED <<dpermit, cur_size, files, origin>>

\* one more event in the history of request c
Log(c, es) == trail' = [trail EXCEPT ![c] = @ \o es]

\* `if let Ok(Some(output)) = output` also taking the Err
DiskHitOrErr(c) == dret[c] \in {"hit", "err"}

\* `if let Ok(Some(output)) = output` on what disk_cache.get returned
DiskHit(c) == dret[c] = "hit"

\* a disk hit is never put into the memory cache
PromotesNever(c) == FALSE

\* `if let (Some(mem_cache), true) = (&self.mem_cache, should_cache)` on a
\* disk hit
Promotes(c) == cfg.mem /\ sc[c]

\* the output is never put into the memory cache
FillsMemNever(c) == FALSE

\* `if let (Some(cache), true) = (&self.mem_cache, should_cache)` after
\* process_image
FillsMem(c) == cfg.mem /\ sc[c]

\* should_cache is not looked at
FillsDiskAlways(c) == cfg.disk

\* `if let (Some(cache), true) = (&self.disk_cache, should_cache)` after
\* process_image
FillsDisk(c) == cfg.disk /\ sc[c]

\* the status is Miss whatever is configured
FilledStatusMiss == "miss"

\* the cache_status of a response that was fetched and processed:
\* (mem_cache.is_some() || disk_cache.is_some()).then_some(Miss)
FilledStatus == IF cfg.mem \/ cfg.disk THEN "miss" ELSE "plain"

\* get_image(url, options, timing, should_cache): Group::run(&key, ..) is
\* entered
GetImageCall(c, k, s) ==
    /\ stage[c] = "none"
    /\ Call(c, k)
    /\ sc' = [sc EXCEPT ![c] = s]
    /\ UNCHANGED <<memVars, diskVars, files, origin, pipeVars, cfg, trail>>

\* get_image with should_cache = true
PipeCall(c, k) == GetImageCall(c, k, TRUE)

\* `if let Some(cache) = &self.disk_cache`: disk_cache.get is called, or
\* with no disk cache the fetch is next
ProbeDisk(c) ==
    IF cfg.disk
        THEN /\ DiskCall(c, "get", FpOf(key[c]), NoOut)
             /\ stage' = [stage EXCEPT ![c] = "disk_get"]
        ELSE /\ stage' = [stage EXCEPT ![c] = "fetch"]
             /\ UNCHANGED <<diskVars, files, origin>>

\* get_image_inner, run by the leader: `semaphore.acquire().await`; then
\* the first configured cache is probed
PipeAdmit(c) ==
    /\ pc[c] = "func"
    /\ stage[c] = "none"
    /\ Cardinality(admitted) < Concurrency
    /\ admitted' = admitted \cup {c}
    /\ IF cfg.mem
           THEN /\ stage' = [stage EXCEPT ![c] = "mem_get"]
                /\ UNCHANGED <<diskVars, files, origin>>
           ELSE ProbeDisk(c)
    /\ UNCHANGED <<sfVars, memVars, resp, ppermit, pjob, reqVars>>

\* mem_cache.get: a hit returns; a miss goes on to disk_cache.get
PipeMemGet(c) ==
    LET f == FpOf(key[c])
        hit == LruPeek(lru, f)
    IN  /\ pc[c] = "func"
        /\ stage[c] = "mem_get"
        /\ Get(f)
        /\ IF hit # NoOut
               THEN /\ resp' = [resp EXCEPT ![c] = [status |-> "hit",
                                                    out |-> hit]]
                    /\ stage' = [stage EXCEPT ![c] = "ready"]
                    /\ Log(c, <<"mem_hit">>)
                    /\ UNCHANGED <<diskVars, files, origin>>
               ELSE /\ ProbeDisk(c)
                    /\ Log(c, <<"mem_miss">>)
                    /\ UNCHANGED resp
        /\ UNCHANGED <<sfVars, admitted, ppermit, pjob, cfg, sc>>

\* disk_cache.get returned: Ok(Some(output)) is put into the memory cache
\* (if there is one and should_cache) and returned as a hit; Ok(None) and
\* Err go on to the fetch
PipeDiskGot(c) ==
    LET f == FpOf(key[c])
        o == FromImage(job[c].r.out)
    IN  /\ pc[c] = "func"
        /\ stage[c] = "disk_get"
        /\ dpc[c] = "done"
        /\ DiskTake(c)
        /\ IF DiskHit(c)
               THEN /\ IF Promotes(c)
                          THEN Set(f, o) /\ Log(c, <<"disk_hit", "promote">>)
                          ELSE UNCHANGED memVars /\ Log(c, <<"disk_hit">>)
                    /\ resp' = [resp EXCEPT ![c] = [status |-> "hit",
                                                    out |-> o]]
                    /\ stage' = [stage EXCEPT ![c] = "ready"]
               ELSE /\ stage' = [stage EXCEPT ![c] = "fetch"]
                    /\ Log(c, IF dret[c] = "err" THEN <<"disk_err">>
                                                 ELSE <<"disk_miss">>)
                    /\ UNCHANGED <<memVars, resp>>
        /\ UNCHANGED <<sfVars, admitted, ppermit, pjob, cfg, sc>>

\* get_orig_image returned the body; process_image waits for its permit
PipeFetch(c) ==
    /\ pc[c] = "func"
    /\ stage[c] = "fetch"
    /\ stage' = [stage EXCEPT ![c] = "process"]
    /\ Log(c, <<"fetch">>)
    /\ UNCHANGED <<sfVars, memVars, diskVars, files, origin, resp, admitted,
                   ppermit, pjob, cfg, sc>>

\* get_orig_image failed: `?` returns the error from get_image_inner
PipeFetchFails(c) ==
    /\ pc[c] = "func"
    /\ stage[c] = "fetch"
    /\ resp' = [resp EXCEPT ![c] = [status |-> "err", out |-> NoOut]]
    /\ stage' = [stage EXCEPT ![c] = "ready"]
    /\ Log(c, <<"fetch_err">>)
    /\ UNCHANGED <<sfVars, memVars, diskVars, files, origin, admitted,
                   ppermit, pjob, cfg, sc>>

\* process_image / metadata: the permit is granted and the job is handed
\* to spawn_blocking
ProcAcquire(c) ==
    /\ stage[c] \in {"process", "m_process"}
    /\ c \notin ppermit
    /\ pjob[c] = "none"
    /\ Cardinality(ppermit) < NumWorkers
    /\ ppermit' = ppermit \cup {c}
    /\ pjob' = [pjob EXCEPT ![c] = "running"]
    /\ UNCHANGED <<sfVars, memVars, diskVars, files, origin, stage, resp,
                   admitted, reqVars>>

\* process_image_inner ends on the blocking pool
ProcJobDone(c) ==
    /\ pjob[c] = "running"
    /\ pjob' = [pjob EXCEPT ![c] = "finished"]
    /\ UNCHANGED <<sfVars, memVars, diskVars, files, origin, stage, resp,
                   admitted, ppermit, reqVars>>

\* process_image returned the output (its permit is dropped); if
\* should_cache, the output is put into the memory cache and
\* disk_cache.set is called, each if configured; with no disk write to
\* wait for the response is ready
PipeProcessed(c) ==
    LET f == FpOf(key[c])
        x == OutputOf(key[c])
    IN  /\ pc[c] = "func"
        /\ stage[c] = "process"
        /\ c \in ppermit
        /\ pjob[c] = "finished"
        /\ ppermit' = ppermit \ {c}
        /\ pjob' = [pjob EXCEPT ![c] = "none"]
        /\ IF FillsMem(c)
               THEN Set(f, x) /\ Log(c, <<"process", "mem_set">>)
               ELSE UNCHANGED memVars /\ Log(c, <<"process">>)
        /\ IF FillsDisk(c)
               THEN /\ DiskCall(c, "set", f, x)
                    /\ stage' = [stage EXCEPT ![c] = "disk_set"]
                    /\ UNCHANGED resp
               ELSE /\ resp' = [resp EXCEPT ![c] = [status |-> FilledStatus,
                                                    out |-> x]]
                    /\ stage' = [stage EXCEPT ![c] = "ready"]
                    /\ UNCHANGED <<diskVars, files, origin>>
        /\ UNCHANGED <<sfVars, admitted, cfg, sc>>

\* `_ = cache.set(..).await`: whatever disk_cache.set returned, the
\* response is the processed output with status MISS
PipeDiskSetDone(c) ==
    /\ pc[c] = "func"
    /\ stage[c] = "disk_set"
    /\ dpc[c] = "done"
    /\ DiskTake(c)
    /\ resp' = [resp EXCEPT ![c] = [status |-> FilledStatus,
                                    out |-> OutputOf(key[c])]]
    /\ stage' = [stage EXCEPT ![c] = "ready"]
    /\ Log(c, IF dret[c] = "ok" THEN <<"disk_set_ok">>
                                ELSE <<"disk_set_err">>)
    /\ UNCHANGED <<sfVars, memVars, admitted, ppermit, pjob, cfg, sc>>

\* get_image_inner returns but the admission permit is not given back
PipeReturnKeepsPermit(c) ==
    /\ stage[c] = "ready"
    /\ LeaderFuncDone(c)
    /\ stage' = [stage EXCEPT ![c] = "returned"]
    /\ UNCHANGED <<memVars, diskVars, files, origin, resp, admitted, ppermit,
                   pjob, reqVars>>

\* get_image_inner returns (the admission permit is dropped) and
\* Group::run goes on after `func().await`
PipeReturn(c) ==
    /\ stage[c] = "ready"
    /\ LeaderFuncDone(c)
    /\ admitted' = admitted \ {c}
    /\ stage' = [stage EXCEPT ![c] = "returned"]
    /\ UNCHANGED <<memVars, diskVars, files, origin, resp, ppermit, pjob,
                   reqVars>>

\* the request's future is dropped but the admission permit is not
\* given back
PipeAbortKeepsPermit(c) ==
    /\ LeaderAbort(c)
    /\ stage' = [stage EXCEPT ![c] = "dropped"]
    /\ ppermit' = ppermit \ {c}
    /\ dpermit' = dpermit \ {c}
    /\ dpc' = [dpc EXCEPT ![c] = IF @ \in {"acquire", "await"}
                                     THEN "cancelled" ELSE @]
    /\ trail' = [trail EXCEPT ![c] = <<>>]
    /\ UNCHANGED <<memVars, dop, job, dret, cur_size, files, origin, resp,
                   admitted, pjob, cfg, sc>>

\* the leader's request is cancelled inside get_image_inner: the future
\* is dropped with every permit it holds; the Guard removes the slot; the
\* jobs it handed to spawn_blocking are not stopped
PipeAbort(c) ==
    /\ LeaderAbort(c)
    /\ stage' = [stage EXCEPT ![c] = "dropped"]
    /\ admitted' = admitted \ {c}
    /\ ppermit' = ppermit \ {c}
    /\ dpermit' = dpermit \ {c}
    /\ dpc' = [dpc EXCEPT ![c] = IF @ \in {"acquire", "await"}
                                     THEN "cancelled" ELSE @]
    /\ trail' = [trail EXCEPT ![c] = <<>>]
    /\ UNCHANGED <<memVars, dop, job, dret, cur_size, files, origin, resp,
                   pjob, cfg, sc>>

\* get_metadata is called: it waits for `semaphore.acquire().await`
MetaCall(c) ==
    /\ pc[c] = "idle"
    /\ stage[c] = "none"
    /\ stage' = [stage EXCEPT ![c] = "m_admit"]
    /\ UNCHANGED <<sfVars, memVars, diskVars, files, origin, resp, admitted,
                   ppermit, pjob,
                   reqVars>>

\* get_metadata: the admission permit is granted
MetaAdmit(c) ==
    /\ stage[c] = "m_admit"
    /\ Cardinality(admitted) < Concurrency
    /\ admitted' = admitted \cup {c}
    /\ stage' = [stage EXCEPT ![c] = "m_fetch"]
    /\ UNCHANGED <<sfVars, memVars, diskVars, files, origin, resp, ppermit,
                   pjob,
                   reqVars>>

\* get_metadata: get_orig_image returns the body, or its error ends the
\* call and drops the permit
MetaFetch(c, ok) ==
    /\ stage[c] = "m_fetch"
    /\ IF ok
           THEN /\ stage' = [stage EXCEPT ![c] = "m_process"]
                /\ UNCHANGED <<resp, admitted>>
           ELSE /\ stage' = [stage EXCEPT ![c] = "returned"]
                /\ resp' = [resp EXCEPT ![c] = [status |-> "err",
                                                out |-> NoOut]]
                /\ admitted' = admitted \ {c}
    /\ UNCHANGED <<sfVars, memVars, diskVars, files, origin, ppermit, pjob,
                   reqVars>>

\* get_metadata: processor.metadata returned; both permits are dropped
MetaProcessed(c) ==
    /\ stage[c] = "m_process"
    /\ c \in ppermit
    /\ pjob[c] = "finished"
    /\ ppermit' = ppermit \ {c}
    /\ pjob' = [pjob EXCEPT ![c] = "none"]
    /\ admitted' = admitted \ {c}
    /\ resp' = [resp EXCEPT ![c] = [status |-> "meta", out |-> NoOut]]
    /\ stage' = [stage EXCEPT ![c] = "returned"]
    /\ UNCHANGED <<sfVars, memVars, diskVars, files, origin,
                   reqVars>>

\* the get_metadata future is dropped with the permits it holds; a job it
\* handed to spawn_blocking is not stopped
MetaAbort(c) ==
    /\ stage[c] \in {"m_admit", "m_fetch", "m_process"}
    /\ stage' = [stage EXCEPT ![c] = "dropped"]
    /\ admitted' = admitted \ {c}
    /\ ppermit' = ppermit \ {c}
    /\ UNCHANGED <<sfVars, memVars, diskVars, files, origin, resp, pjob,
                   reqVars>>

outsidePipe == <<fmtLast, cleanVars, http, fpr, args>>
\* steps of Group::run outside func touch nothing else
outsideRun == <<memVars, fmtVars, diskVars, cleanVars, pipeVars, reqVars,
               http, fpr, args>>

NextPipe ==
    \/ \E c \in Requests, k \in Keys : PipeCall(c, k) /\ UNCHANGED outsidePipe
    \/ \E c \in Requests : PipeAdmit(c) /\ UNCHANGED outsidePipe
    \/ \E c \in Requests : PipeMemGet(c) /\ UNCHANGED outsidePipe
    \/ \E c \in Requests : PipeDiskGot(c) /\ UNCHANGED outsidePipe
    \/ \E c \in Requests : PipeFetch(c) /\ UNCHANGED outsidePipe
    \/ \E c \in Requests : PipeFetchFails(c) /\ UNCHANGED outsidePipe
    \/ \E c \in Requests : MetaCall(c) /\ UNCHANGED outsidePipe
    \/ \E c \in Requests : MetaAdmit(c) /\ UNCHANGED outsidePipe
    \/ \E c \in Requests, ok \in BOOLEAN :
         MetaFetch(c, ok) /\ UNCHANGED outsidePipe
    \/ \E c \in Requests : MetaProcessed(c) /\ UNCHANGED outsidePipe
    \/ \E c \in Requests : MetaAbort(c) /\ UNCHANGED outsidePipe
    \/ \E c \in Requests : ProcAcquire(c) /\ UNCHANGED outsidePipe
    \/ \E c \in Requests : ProcJobDone(c) /\ UNCHANGED outsidePipe
    \/ \E c \in Requests : PipeProcessed(c) /\ UNCHANGED outsidePipe
    \/ \E c \in Requests : PipeDiskSetDone(c) /\ UNCHANGED outsidePipe
    \/ \E c \in Requests : PipeReturn(c) /\ UNCHANGED outsidePipe
    \/ \E c \in Requests : PipeAbort(c) /\ UNCHANGED outsidePipe
    \/ \E c \in Requests : Retry(c) /\ UNCHANGED outsideRun
    \/ \E c \in Requests : LeaderCheckClosed(c) /\ UNCHANGED outsideRun
    \/ \E c \in Requests : LeaderSend(c) /\ UNCHANGED outsideRun
    \/ \E c \in Requests : LeaderReturn(c) /\ UNCHANGED outsideRun
    \/ \E c \in Requests : LeaderAbortDropTx(c) /\ UNCHANGED outsideRun
    \/ \E c \in Requests : FollowerWake(c) /\ UNCHANGED outsideRun
    \/ \E c \in Requests : FollowerCancel(c) /\ UNCHANGED outsideRun
    \/ \E c \in Requests : DiskAcquire(c) /\ UNCHANGED <<outsideDisk, cleanVars>>
    \/ \E c \in Requests : JobRead(c) /\ UNCHANGED <<outsideDisk, cleanVars>>
    \/ \E c \in Requests : JobCreate(c) /\ UNCHANGED <<outsideDisk, cleanVars>>
    \/ \E c \in Requests :
         JobWriteContents(c) /\ UNCHANGED <<outsideDisk, cleanVars>>
    \/ \E c \in Requests : JobWriteBuf(c) /\ UNCHANGED <<outsideDisk, cleanVars>>
    \/ \E c \in Requests : DiskReturn(c) /\ UNCHANGED <<outsideDisk, cleanVars>>

\* ---- requests that are never cancelled, under fair scheduling ----

\* request c has been made
Started(c) == pc[c] # "idle" \/ stage[c] # "none"

\* the requests are numbered in the order they arrive
Arrives(c) == \A d \in Requests : d < c => Started(d)

\* a get_image request arrives
FlowCall(c, k) == Arrives(c) /\ PipeCall(c, k)

\* a get_metadata request arrives
FlowMeta(c) == Arrives(c) /\ MetaCall(c)

\* get_orig_image of get_image_inner ends, with the body or an error
FlowFetch(c) == PipeFetch(c) \/ PipeFetchFails(c)

\* the steps of the blocking job of a DiskCache call
FlowJob(c) ==
    JobRead(c) \/ JobCreate(c) \/ JobWriteContents(c) \/ JobWriteBuf(c)

NextFlow ==
    \/ \E c \in Requests, k \in Keys : FlowCall(c, k) /\ UNCHANGED outsidePipe
    \/ \E c \in Requests : FlowMeta(c) /\ UNCHANGED outsidePipe
    \/ \E c \in Requests : PipeAdmit(c) /\ UNCHANGED outsidePipe
    \/ \E c \in Requests : PipeMemGet(c) /\ UNCHANGED outsidePipe
    \/ \E c \in Requests : PipeDiskGot(c) /\ UNCHANGED outsidePipe
    \/ \E c \in Requests : FlowFetch(c) /\ UNCHANGED outsidePipe
    \/ \E c \in Requests : MetaAdmit(c) /\ UNCHANGED outsidePipe
    \/ \E c \in Requests, ok \in BOOLEAN :
         MetaFetch(c, ok) /\ UNCHANGED outsidePipe
    \/ \E c \in Requests : MetaProcessed(c) /\ UNCHANGED outsidePipe
    \/ \E c \in Requests : ProcAcquire(c) /\ UNCHANGED outsidePipe
    \/ \E c \in Requests : ProcJobDone(c) /\ UNCHANGED outsidePipe
    \/ \E c \in Requests : PipeProcessed(c) /\ UNCHANGED outsidePipe
    \/ \E c \in Requests : PipeDiskSetDone(c) /\ UNCHANGED outsidePipe
    \/ \E c \in Requests : PipeReturn(c) /\ UNCHANGED outsidePipe
    \/ \E c \in Requests : LeaderCheckClosed(c) /\ UNCHANGED outsideRun
    \/ \E c \in Requests : LeaderSend(c) /\ UNCHANGED outsideRun
    \/ \E c \in Requests : LeaderReturn(c) /\ UNCHANGED outsideRun
    \/ \E c \in Requests : FollowerWake(c) /\ UNCHANGED outsideRun
    \/ \E c \in Requests : DiskAcquire(c) /\ UNCHANGED <<outsideDisk, cleanVars>>
    \/ \E c \in Requests : FlowJob(c) /\ UNCHANGED <<outsideDisk, cleanVars>>
    \/ \E c \in Requests : DiskReturn(c) /\ UNCHANGED <<outsideDisk, cleanVars>>

\* a step of request c after its arrival: of its task, of the processor's
\* blocking job or of the blocking job of its DiskCache call (the task
\* awaits the job, so one of them at a time can make a step)
FlowStep(c) ==
    \/ /\ \/ PipeAdmit(c) \/ PipeMemGet(c) \/ PipeDiskGot(c) \/ FlowFetch(c)
          \/ MetaAdmit(c) \/ (\E ok \in BOOLEAN : MetaFetch(c, ok))
          \/ MetaProcessed(c) \/ ProcAcquire(c) \/ ProcJobDone(c)
          \/ PipeProcessed(c) \/ PipeDiskSetDone(c) \/ PipeReturn(c)
       /\ UNCHANGED outsidePipe
    \/ /\ \/ LeaderCheckClosed(c) \/ LeaderSend(c) \/ LeaderReturn(c)
          \/ FollowerWake(c)
       /\ UNCHANGED outsideRun
    \/ /\ DiskAcquire(c) \/ FlowJob(c) \/ DiskReturn(c)
       /\ UNCHANGED <<outsideDisk, cleanVars>>

\* the runtime polls every task that can make a step, a free permit is
\* granted to a task that waits for it, and fetches and blocking jobs
\* end; no request is forced to arrive
FairFlow == \A c \in Requests : WF_vars(FlowStep(c))

\* ---- get_image with its timing and should_cache arguments ----

\* ServerTiming::new(show_timing): whether the header is collected
ServerTimingNew(show_timing) == IF show_timing THEN "Some" ELSE "None"

NoArgs == [work |-> "none", timing |-> FALSE, hdr |-> "unbuilt"]

\* faulty variant: should_cache takes the place of the url in the key
RunKeyOfFlags(k, timing, should_cache) == IF should_cache THEN "k1" ELSE "k2"

\* `let key = Key { input: url.to_owned(), options }`: the key handed to
\* Group::run is the work asked for (url and options, k); timing and
\* should_cache are not fields of it
RunKey(k, timing, should_cache) == k

\* get_image(url, options, timing, should_cache), k standing for the url
\* and the options
ShareCall(c, k, t, s) ==
    /\ Arrives(c)
    /\ GetImageCall(c, RunKey(k, t, s), s)
    /\ args' = [args EXCEPT ![c] = [work |-> k, timing |-> t,
                                     hdr |-> "unbuilt"]]

\* get_image_inner: the permit is granted and
\* `let mut timing = ServerTiming::new(timing)` is built from the
\* leader's own argument
ShareAdmit(c) ==
    /\ PipeAdmit(c)
    /\ args' = [args EXCEPT ![c].hdr = ServerTimingNew(args[c].timing)]

outsideShare == <<fmtLast, cleanVars, http, fpr>>

\* the url and options every request of this run asks for
ShareWork == {"k2"}

NextShare ==
    \/ \E c \in Requests, k \in ShareWork, t \in BOOLEAN, s \in BOOLEAN :
         ShareCall(c, k, t, s) /\ UNCHANGED outsideShare
    \/ \E c \in Requests : ShareAdmit(c) /\ UNCHANGED outsideShare
    \/ \E c \in Requests : PipeMemGet(c) /\ UNCHANGED outsidePipe
    \/ \E c \in Requests : PipeDiskGot(c) /\ UNCHANGED outsidePipe
    \/ \E c \in Requests : FlowFetch(c) /\ UNCHANGED outsidePipe
    \/ \E c \in Requests : ProcAcquire(c) /\ UNCHANGED outsidePipe
    \/ \E c \in Requests : ProcJobDone(c) /\ UNCHANGED outsidePipe
    \/ \E c \in Requests : PipeProcessed(c) /\ UNCHANGED outsidePipe
    \/ \E c \in Requests : PipeDiskSetDone(c) /\ UNCHANGED outsidePipe
    \/ \E c \in Requests : PipeReturn(c) /\ UNCHANGED outsidePipe
    \/ \E c \in Requests : LeaderCheckClosed(c) /\ UNCHANGED outsideRun
    \/ \E c \in Requests : LeaderSend(c) /\ UNCHANGED outsideRun
    \/ \E c \in Requests : LeaderReturn(c) /\ UNCHANGED outsideRun
    \/ \E c \in Requests : FollowerWake(c) /\ UNCHANGED outsideRun
    \/ \E c \in Requests : DiskAcquire(c) /\ UNCHANGED <<outsideDisk, cleanVars>>
    \/ \E c \in Requests : FlowJob(c) /\ UNCHANGED <<outsideDisk, cleanVars>>
    \/ \E c \in Requests : DiskReturn(c) /\ UNCHANGED <<outsideDisk, cleanVars>>

\* ---- the same Handler constructed with disk_cache = None ----

\* mem_cache.get: a hit returns; with no disk cache a miss goes on to the
\* fetch
PipeMemGetOnly(c) ==
    LET f == FpOf(key[c])
        hit == LruPeek(lru, f)
    IN  /\ pc[c] = "func"
        /\ stage[c] = "mem_get"
        /\ Get(f)
        /\ IF hit # NoOut
               THEN /\ resp' = [resp EXCEPT ![c] = [status |-> "hit",
                                                    out |-> hit]]
                    /\ stage' = [stage EXCEPT ![c] = "ready"]
                    /\ Log(c, <<"mem_hit">>)
               ELSE /\ stage' = [stage EXCEPT ![c] = "fetch"]
                    /\ Log(c, <<"mem_miss">>)
                    /\ UNCHANGED resp
        /\ UNCHANGED <<sfVars, diskVars, files, origin, admitted, ppermit,
                       pjob, cfg, sc>>

\* process_image returned the output (its permit is dropped); the output
\* is put into the memory cache and returned with status MISS
PipeProcessedMemOnly(c) ==
    LET f == FpOf(key[c])
        x == OutputOf(key[c])
    IN  /\ pc[c] = "func"
        /\ stage[c] = "process"
        /\ c \in ppermit
        /\ pjob[c] = "finished"
        /\ ppermit' = ppermit \ {c}
        /\ pjob' = [pjob EXCEPT ![c] = "none"]
        /\ Set(f, x)
        /\ Log(c, <<"process", "mem_set">>)
        /\ resp' = [resp EXCEPT ![c] = [status |-> "miss", out |-> x]]
        /\ stage' = [stage EXCEPT ![c] = "ready"]
        /\ UNCHANGED <<sfVars, diskVars, files, origin, admitted, cfg, sc>>

NextMemOnly ==
    \/ \E c \in Requests, k \in Keys : PipeCall(c, k) /\ UNCHANGED outsidePipe
    \/ \E c \in Requests : PipeAdmit(c) /\ UNCHANGED outsidePipe
    \/ \E c \in Requests : PipeMemGetOnly(c) /\ UNCHANGED outsidePipe
    \/ \E c \in Requests : PipeFetch(c) /\ UNCHANGED outsidePipe
    \/ \E c \in Requests : PipeFetchFails(c) /\ UNCHANGED outsidePipe
    \/ \E c \in Requests : MetaCall(c) /\ UNCHANGED outsidePipe
    \/ \E c \in Requests : MetaAdmit(c) /\ UNCHANGED outsidePipe
    \/ \E c \in Requests, ok \in BOOLEAN :
         MetaFetch(c, ok) /\ UNCHANGED outsidePipe
    \/ \E c \in Requests : MetaProcessed(c) /\ UNCHANGED outsidePipe
    \/ \E c \in Requests : MetaAbort(c) /\ UNCHANGED outsidePipe
    \/ \E c \in Requests : ProcAcquire(c) /\ UNCHANGED outsidePipe
    \/ \E c \in Requests : ProcJobDone(c) /\ UNCHANGED outsidePipe
    \/ \E c \in Requests : PipeProcessedMemOnly(c) /\ UNCHANGED outsidePipe
    \/ \E c \in Requests : PipeReturn(c) /\ UNCHANGED outsidePipe
    \/ \E c \in Requests : PipeAbort(c) /\ UNCHANGED outsidePipe
    \/ \E c \in Requests : Retry(c) /\ UNCHANGED outsideRun
    \/ \E c \in Requests : LeaderCheckClosed(c) /\ UNCHANGED outsideRun
    \/ \E c \in Requests : LeaderSend(c) /\ UNCHANGED outsideRun
    \/ \E c \in Requests : LeaderReturn(c) /\ UNCHANGED outsideRun
    \/ \E c \in Requests : LeaderAbortDropTx(c) /\ UNCHANGED outsideRun
    \/ \E c \in Requests : FollowerWake(c) /\ UNCHANGED outsideRun
    \/ \E c \in Requests : FollowerCancel(c) /\ UNCHANGED outsideRun

\* ---- get_image requests one after another, on every configuration ----

\* no request has been made yet
Fresh == \A c \in Requests : pc[c] = "idle" /\ stage[c] = "none"

\* no request is in progress
Quiet == \A c \in Requests : pc[c] \in {"idle", "done"}

\* Handler::new(mem_cache, disk_cache, ..): each cache is Some or None
HandlerNew(m, d) ==
    /\ Fresh
    /\ ExistingPaths = {}
    /\ cfg' = [mem |-> m, disk |-> d]
    /\ cfg' # cfg
    /\ UNCHANGED <<sfVars, memVars, diskVars, files, origin, pipeVars, sc,
                   trail>>

\* the cache directory as an earlier run of the server left it: the entry
\* of a key, whole or cut short after n bytes (set_inner writes in place)
DiskLeft(k, n) ==
    LET o == ImageOutput(OutputOf(k))
        f == FpOf(k)
    IN  /\ Fresh
        /\ cfg.disk
        /\ ExistingPaths = {}
        /\ n <= Len(EntryBytes(o))
        /\ files' = [files EXCEPT ![f] =
                        [exists |-> TRUE, data |-> SubSeq(EntryBytes(o), 1, n)]]
        /\ origin' = [origin EXCEPT ![f] =
                        [state |-> IF n = Len(EntryBytes(o)) THEN "written"
                                                              ELSE "cut",
                         out |-> o]]
        /\ UNCHANGED <<sfVars, memVars, diskVars, pipeVars, reqVars>>

\* a client that waits for each response before its next request; its
\* requests are numbered in the order they are made
ReqCall(c, k, s) ==
    /\ Quiet
    /\ \A d \in Requests : d < c => pc[d] = "done"
    /\ GetImageCall(c, k, s)

\* the longest entry a key can have, in bytes
EntryLens == 0..(4 + 3 + MaxBytes + 1)

outsideReq == <<fmtLast, cleanVars, http, fpr, args>>

NextReq ==
    \/ \E m, d \in BOOLEAN : HandlerNew(m, d) /\ UNCHANGED outsideReq
    \/ \E k \in Keys, n \in EntryLens : DiskLeft(k, n) /\ UNCHANGED outsideReq
    \/ \E c \in Requests, k \in Keys, s \in BOOLEAN :
         ReqCall(c, k, s) /\ UNCHANGED outsideReq
    \/ \E c \in Requests : PipeAdmit(c) /\ UNCHANGED outsideReq
    \/ \E c \in Requests : PipeMemGet(c) /\ UNCHANGED outsideReq
    \/ \E c \in Requests : PipeDiskGot(c) /\ UNCHANGED outsideReq
    \/ \E c \in Requests : PipeFetch(c) /\ UNCHANGED outsideReq
    \/ \E c \in Requests : PipeFetchFails(c) /\ UNCHANGED outsideReq
    \/ \E c \in Requests : ProcAcquire(c) /\ UNCHANGED outsideReq
    \/ \E c \in Requests : ProcJobDone(c) /\ UNCHANGED outsideReq
    \/ \E c \in Requests : PipeProcessed(c) /\ UNCHANGED outsideReq
    \/ \E c \in Requests : PipeDiskSetDone(c) /\ UNCHANGED outsideReq
    \/ \E c \in Requests : PipeReturn(c) /\ UNCHANGED outsideReq
    \/ \E c \in Requests : LeaderCheckClosed(c) /\ UNCHANGED outsideRun
    \/ \E c \in Requests : LeaderReturn(c) /\ UNCHANGED outsideRun
    \/ \E c \in Requests : DiskAcquire(c) /\ UNCHANGED <<outsideDisk, cleanVars>>
    \/ \E c \in Requests : JobRead(c) /\ UNCHANGED <<outsideDisk, cleanVars>>
    \/ \E c \in Requests : JobCreate(c) /\ UNCHANGED <<outsideDisk, cleanVars>>
    \/ \E c \in Requests :
         JobWriteContents(c) /\ UNCHANGED <<outsideDisk, cleanVars>>
    \/ \E c \in Requests : JobWriteBuf(c) /\ UNCHANGED <<outsideDisk, cleanVars>>
    \/ \E c \in Requests : DiskReturn(c) /\ UNCHANGED <<outsideDisk, cleanVars>>

\* everything outside the memory cache / outside the single-flight group
outsideMem == <<sfVars, fmtVars, diskVars, cleanVars, pipeVars, reqVars,
               http, fpr, args>>
outsideSF == <<memVars, fmtVars, diskVars, cleanVars, pipeVars, reqVars,
              http, fpr, args>>

NextMem ==
    \/ \E f \in Fps, x \in Outputs : Set(f, x) /\ UNCHANGED outsideMem
    \/ \E f \in Fps : Get(f) /\ UNCHANGED outsideMem

NextSF ==
    \/ \E c \in Callers, k \in Keys : Call(c, k) /\ UNCHANGED outsideSF
    \/ \E c \in Callers : Retry(c) /\ UNCHANGED outsideSF
    \/ \E c \in Callers : LeaderFuncDone(c) /\ UNCHANGED outsideSF
    \/ \E c \in Callers : LeaderCheckClosed(c) /\ UNCHANGED outsideSF
    \/ \E c \in Callers : LeaderSend(c) /\ UNCHANGED outsideSF
    \/ \E c \in Callers : LeaderReturn(c) /\ UNCHANGED outsideSF
    \/ \E c \in Callers : LeaderAbort(c) /\ UNCHANGED outsideSF
    \/ \E c \in Callers : LeaderAbortDropTx(c) /\ UNCHANGED outsideSF
    \/ \E c \in Callers : FollowerWake(c) /\ UNCHANGED outsideSF
    \/ \E c \in Callers : FollowerCancel(c) /\ UNCHANGED outsideSF

\* ---- Group::run under fair scheduling --------------------------------

\* the callers of the runs checked for progress
Waiters == {c \in Callers : c <= NumWaiters}

\* concurrent calls of Group::run by the waiters, with cancellation
NextStrand ==
    \/ \E c \in Waiters, k \in Keys : Call(c, k) /\ UNCHANGED outsideSF
    \/ \E c \in Waiters : Retry(c) /\ UNCHANGED outsideSF
    \/ \E c \in Waiters : LeaderFuncDone(c) /\ UNCHANGED outsideSF
    \/ \E c \in Waiters : LeaderCheckClosed(c) /\ UNCHANGED outsideSF
    \/ \E c \in Waiters : LeaderSend(c) /\ UNCHANGED outsideSF
    \/ \E c \in Waiters : LeaderReturn(c) /\ UNCHANGED outsideSF
    \/ \E c \in Waiters : LeaderAbort(c) /\ UNCHANGED outsideSF
    \/ \E c \in Waiters : LeaderAbortDropTx(c) /\ UNCHANGED outsideSF
    \/ \E c \in Waiters : FollowerWake(c) /\ UNCHANGED outsideSF
    \/ \E c \in Waiters : FollowerCancel(c) /\ UNCHANGED outsideSF

\* the runtime polls every task that can make a step, every execution of
\* func terminates, and the drops of an abandoned leader run to their
\* end; a call, a cancellation and a panic are never forced
FairStrand ==
    \A c \in Waiters :
        /\ WF_vars(Retry(c) /\ UNCHANGED outsideSF)
        /\ WF_vars(LeaderFuncDone(c) /\ UNCHANGED outsideSF)
        /\ WF_vars(LeaderCheckClosed(c) /\ UNCHANGED outsideSF)
        /\ WF_vars(LeaderSend(c) /\ UNCHANGED outsideSF)
        /\ WF_vars(LeaderReturn(c) /\ UNCHANGED outsideSF)
        /\ WF_vars(LeaderAbortDropTx(c) /\ UNCHANGED outsideSF)
        /\ WF_vars(FollowerWake(c) /\ UNCHANGED outsideSF)

Init ==
    /\ MaxBytes > 0
    /\ pc = [c \in Callers |-> "idle"]
    /\ key = [c \in Callers |-> "k1"]
    /\ map = [k \in Keys |-> NoCh]
    /\ chans = <<>>
    /\ rx = [c \in Callers |-> NoRx]
    /\ tx = [c \in Callers |-> NoCh]
    /\ guard = [c \in Callers |-> FALSE]
    /\ res = [c \in Callers |-> None]
    /\ ret = [c \in Callers |-> None]
    /\ invoked = [k \in Keys |-> 0]
    /\ joined = [c \in Callers |-> NoCh]
    /\ aborted = {}
    /\ late = {}
    /\ wokeFrom = [c \in Callers |-> NoCh]
    /\ sendSkipped = {}
    /\ lru = <<>>
    /\ size = 0
    /\ memPanic = FALSE
    /\ memLast = [op |-> "new", k |-> "f1", out |-> NoOut, old |-> NoOut,
                  popped |-> 0]
    /\ lastSet = [f \in Fps |-> NoOut]
    /\ files = [f \in Fps |-> NoFile]
    /\ origin = [f \in Fps |-> NoOrigin]
    /\ fmtLast = [op |-> "new", f |-> "f1", state |-> "absent",
                  wrote |-> NoImage, r |-> GetInner(NoFile)]
    /\ dpc = [c \in Callers |-> "idle"]
    /\ dop = [c \in Callers |-> NoOp]
    /\ dpermit = {}
    /\ job = [c \in Callers |-> NoJob]
    /\ dret = [c \in Callers |-> "none"]
    /\ cur_size = 0
    /\ cl = [pc |-> "scan", to_remove |-> 0, removed |-> 0, batch |-> 0,
             cand |-> <<>>]
    /\ pass = NoPass
    /\ stage = [c \in Callers |-> "none"]
    /\ resp = [c \in Callers |-> NoResp]
    /\ admitted = {}
    /\ ppermit = {}
    /\ pjob = [c \in Callers |-> "none"]
    /\ cfg = [mem |-> TRUE, disk |-> TRUE]
    /\ sc = [c \in Callers |-> TRUE]
    /\ trail = [c \in Callers |-> <<>>]
    /\ http = NoHttp
    /\ fpr = NoFpr
    /\ args = [c \in Callers |-> NoArgs]

\* concurrent calls of Group::run, with cancellation
SpecSF == Init /\ [][NextSF]_vars

\* the same calls under fair scheduling
SpecStrand == Init /\ [][NextStrand]_vars /\ FairStrand

\* sequences of MemoryCache::set / MemoryCache::get
SpecMem == Init /\ [][NextMem]_vars

\* get_inner on every file a complete or cut-short write can leave
SpecFmt == Init /\ [][NextFmt]_vars

\* concurrent DiskCache::get / ::set calls and their blocking jobs
SpecDisk == Init /\ [][NextDisk]_vars

\* DiskCache::set calls next to the cleaner task
SpecClean == Init /\ [][NextClean]_vars

\* the same calls and the cleaner task under fair scheduling
SpecCleanFair == Init /\ [][NextClean]_vars /\ FairClean

\* concurrent get_image requests through single-flight and both caches
SpecPipe == Init /\ [][NextPipe]_vars

\* get_image requests that differ in their timing and should_cache flags
SpecShare == Init /\ [][NextShare]_vars

\* requests that are never cancelled, under fair scheduling
SpecFlow == Init /\ [][NextFlow]_vars /\ FairFlow

\* the same requests with the memory cache only (disk_cache = None)
SpecMemOnly == Init /\ [][NextMemOnly]_vars

\* get_image requests made one after another, with and without
\* should_cache, on every cache configuration and stored disk entry
SpecReq == Init /\ [][NextReq]_vars

\* one call of Verifier::verify, or one request to an endpoint
SpecSig == Init /\ [][NextSig]_vars

\* the keys of pairs of requests
SpecKey == Init /\ [][NextKey]_vars

\* ========================================================================
\* Properties of singleflight::Group (checked under SpecSF)
\* ========================================================================

\* the callers that have called run with key k
KeyCallers(k) == {c \in Callers : pc[c] # "idle" /\ key[c] = k}
\* the callers that registered a slot (took the Sender arm)
IsLeader(c) ==
    pc[c] \in {"func", "check", "send", "return", "aborted"} \/ res[c] # None
\* the leaders of k that are executing func
Leaders(k) == {c \in Callers : pc[c] = "func" /\ key[c] = k}
\* the leader that created channel e
LeaderOf(e) == CHOOSE c \in Callers : IsLeader(c) /\ joined[c] = e
\* some leader of k was cancelled or panicked
KeyAborted(k) == \E e \in aborted : chans[e].key = k

\* C1: when all calls of run(k, f) are concurrent (each was made before
\* any leader of k had left) and no leader of k was cancelled, f has been
\* invoked exactly once for k, however many callers there are and whether
\* or not followers were cancelled.
C1_InvokedOnce ==
    \A k \in Keys :
        (KeyCallers(k) # {} /\ k \notin late /\ ~KeyAborted(k))
            => invoked[k] = 1

C1_Witness ==
    \E k \in Keys :
        /\ k \notin late /\ ~KeyAborted(k)
        /\ \A c \in Callers : pc[c] = "done" /\ key[c] = k
        /\ invoked[k] = 1

\* C2: every caller that has returned from run(k, .) returned the value
\* produced by the leader of the computation it shared (the leader its own
\* func result, a follower the value of the channel it last joined), that
\* value was produced by an execution of func for k, and it is never the
\* empty result.
C2_SameValue ==
    \A c \in Callers :
        pc[c] = "done" =>
            /\ ret[c] # None
            /\ ret[c] = joined[c]
            /\ chans[ret[c]].key = key[c]
            /\ \E d \in Callers : key[d] = key[c] /\ res[d] = ret[c]
            /\ IsLeader(c) => ret[c] = res[c]

C2_Witness ==
    \E c, d \in Callers :
        /\ c # d /\ pc[c] = "done" /\ pc[d] = "done"
        /\ IsLeader(c) /\ ~IsLeader(d)
        /\ wokeFrom[d] # NoCh
        /\ ret[d] = ret[c]

\* C3: at any instant at most one caller per key is leader (holds the
\* registered slot and is executing func), also after cancellations.
C3_AtMostOneLeader ==
    \A k \in Keys : Cardinality(Leaders(k)) <= 1

C3_Witness ==
    \E c, d \in Callers :
        /\ pc[c] = "func" /\ wokeFrom[c] \in aborted
        /\ pc[d] = "func" /\ key[d] # key[c]

\* C4 as stated: of the followers that woke with no result from the
\* channel of a cancelled leader, exactly one becomes the new leader
\* (never two of them).
C4_ExactlyOneNewLeader ==
    \A e \in aborted :
        Cardinality({c \in Callers : wokeFrom[c] = e /\ IsLeader(c)}) <= 1

\* C4 (amended): when the leader of k is cancelled its guard removes the
\* slot; a follower waiting on the dead channel finds no value there and,
\* once the Sender is gone, wakes with an error and retries; a retrying
\* follower becomes the new leader only if no slot exists at that moment,
\* so at most one of the woken followers is leader at any instant (several
\* may lead one after another, and none if another caller came first).
C4_Takeover ==
    /\ \A e \in aborted :
          /\ map[chans[e].key] # e
          /\ chans[e].val = None
          /\ Cardinality({c \in Callers :
                 wokeFrom[c] = e /\ pc[c] = "func"}) <= 1
    /\ \A c \in Callers :
          (pc[c] = "waiting" /\ rx[c].ch \in aborted
             /\ \A d \in Callers : tx[d] # rx[c].ch)
          => ChangedErr(rx[c])
    /\ \A c \in Callers :
          (wokeFrom[c] # NoCh /\ IsLeader(c)) => joined[c] # wokeFrom[c]

C4_Witness ==
    \E c, d \in Callers :
        /\ wokeFrom[c] \in aborted /\ wokeFrom[d] = wokeFrom[c]
        /\ pc[c] = "func"
        /\ pc[d] = "waiting" /\ rx[d].ch = tx[c]

\* C5: a cancelled follower leaves the slot with the running leader; a
\* follower wakes with no result only from the channel of a leader that
\* was cancelled or panicked (never because another follower went away);
\* a leader that finished returns its own result; and once the leader has
\* returned, every follower still waiting has the leader's result ready;
\* the send is skipped only when every follower was cancelled.
C5_FollowerCancelHarmless ==
    /\ \A c \in Callers :
          (pc[c] = "cancelled" /\ pc[LeaderOf(joined[c])] = "func")
          => map[key[c]] = joined[c]
    /\ \A c \in Callers : wokeFrom[c] # NoCh => wokeFrom[c] \in aborted
    /\ \A c \in Callers :
          (IsLeader(c) /\ pc[c] = "done") => ret[c] = res[c] /\ ret[c] # None
    /\ \A c \in Callers :
          (pc[c] = "waiting" /\ pc[LeaderOf(rx[c].ch)] = "done")
          => ChangedOk(rx[c]) /\ chans[rx[c].ch].val = ret[LeaderOf(rx[c].ch)]
    /\ \A e \in sendSkipped : \A c \in Callers :
          (joined[c] = e /\ ~IsLeader(c)) => pc[c] = "cancelled"

C5_Witness ==
    \E c, d, f \in Callers :
        /\ IsLeader(c) /\ pc[c] = "done"
        /\ pc[d] = "cancelled" /\ joined[d] = joined[c]
        /\ pc[f] = "done" /\ ~IsLeader(f) /\ joined[f] = joined[c]
        /\ ret[f] = ret[c]

\* C6: the map holds a slot for k exactly while a leader is executing func
\* for k, and the slot is that leader's channel; after the leader
\* completed, panicked or was cancelled there is no slot.
C6_SlotIffInFlight ==
    \A k \in Keys :
        /\ (map[k] # NoCh) <=> (Leaders(k) # {})
        /\ \A c \in Leaders(k) : map[k] = tx[c] /\ guard[c]

C6_Witness ==
    \E k \in Keys :
        /\ Cardinality(KeyCallers(k)) >= 2
        /\ \A c \in KeyCallers(k) : pc[c] \in {"cancelled", "aborted"}
        /\ \A c \in KeyCallers(k) : tx[c] = NoCh
        /\ map[k] = NoCh

\* ========================================================================
\* Properties of cache::memory::MemoryCache (checked under SpecMem)
\* ========================================================================

\* C7: after every set or get has returned, the buffer lengths of the
\* cached entries sum to at most max_bytes.
C7_WithinBudget == SumLen(lru) <= MaxBytes

C7_Witness ==
    /\ memLast.op = "set" /\ memLast.popped >= 1
    /\ memLast.out.len <= MaxBytes
    /\ SumLen(lru) = MaxBytes

\* C8 as stated: after set(fp, x) with len(x.buf) > max_bytes the
\* oversized entry is the only entry left (so get(fp) would return x).
C8_OversizedRetained ==
    (memLast.op = "set" /\ memLast.out.len > MaxBytes)
        => /\ lru = <<[k |-> memLast.k, v |-> memLast.out]>>
           /\ LruGet(lru, memLast.k).out = memLast.out

\* C8 (amended): set(fp, x) with len(x.buf) > max_bytes evicts every
\* entry, the oversized one included: the cache is empty and the counter
\* is 0 when set returns, and a get(fp) at that point returns absent.
C8_OversizedDropped ==
    (memLast.op = "set" /\ memLast.out.len > MaxBytes)
        => /\ lru = <<>>
           /\ size = 0
           /\ LruGet(lru, memLast.k).out = NoOut

C8_Witness ==
    /\ memLast.op = "set" /\ memLast.out.len > MaxBytes
    /\ memLast.popped >= 2
    /\ lru = <<>>

\* C9: a get returns absent or the value most recently set for that
\* fingerprint (the cache never holds another value for it), and right
\* after set(fp, x) with len(x.buf) <= max_bytes a get(fp) returns x.
C9_GetReturnsLastSet ==
    /\ memLast.op = "get" => memLast.out \in {NoOut, lastSet[memLast.k]}
    /\ \A f \in Fps : LruPeek(lru, f) \in {NoOut, lastSet[f]}
    /\ (memLast.op = "set" /\ memLast.out.len <= MaxBytes)
          => LruGet(lru, memLast.k).out = memLast.out

C9_Witness ==
    /\ memLast.op = "set" /\ memLast.out.len <= MaxBytes
    /\ memLast.old # NoOut /\ memLast.old # memLast.out
    /\ memLast.popped >= 1
    /\ LruGet(lru, memLast.k).out = memLast.out

\* C10: at every quiescent point the size counter equals the sum of the
\* buffer lengths of the entries held, and no checked subtraction of set
\* has failed.
C10_SizeIsSum == size = SumLen(lru) /\ ~memPanic

C10_Witness ==
    /\ memLast.op = "set" /\ memLast.old # NoOut
    /\ memLast.old.len # memLast.out.len
    /\ memLast.popped >= 1
    /\ size = SumLen(lru) /\ size > 0

\* ========================================================================
\* Properties of the DiskCache entry format (checked under SpecFmt)
\* ========================================================================

\* C12: DiskCache::get answers every truncated entry file with an error,
\* never with a hit: whenever get_inner ran on a file that is a strict
\* prefix of a validly written entry (shorter than 4 bytes, cut inside
\* the metadata so that the declared length exceeds the size, or cut
\* inside the image bytes), its result was an error.
C12_TruncatedRejected ==
    (fmtLast.op = "get" /\ fmtLast.state = "cut") => fmtLast.r.kind = "err"

\* ========================================================================
\* Properties of DiskCache::get / ::set (checked under SpecDisk)
\* ========================================================================

\* a returned call of get that read path f after a set had written the
\* file at f to its end
GetAfterSet(c) ==
    /\ dpc[c] = "done"
    /\ dop[c].kind = "get"
    /\ job[c].saw.state = "written"

\* C11: round trip.  A get(fp) that reads the path after a successful
\* set(fp, out) wrote it (and the file was not removed in between) returns
\* a hit whose metadata and image bytes are those of out.
C11_RoundTrip ==
    \A c \in Callers :
        GetAfterSet(c) =>
            /\ dret[c] = "hit"
            /\ job[c].r.out = job[c].saw.out

\* a get returned the two-byte image another caller's set had written
C11_Witness ==
    \E c, d \in Callers :
        /\ GetAfterSet(c)
        /\ dret[c] = "hit"
        /\ Len(job[c].r.out.buf) = 2
        /\ dpc[d] = "done" /\ dop[d].kind = "set" /\ dret[d] = "ok"
        /\ dop[d].f = dop[c].f

\* a returned call of set whose create_file found a file at the path
SetOnExisting(c) ==
    /\ dpc[c] = "done"
    /\ dop[c].kind = "set"
    /\ job[c].saw.state # "absent"

\* C13 (as claimed): set(fp, out) on an fp whose entry file already exists
\* is an idempotent success: it returns without an error.
C13_ExistingIsSuccess ==
    \A c \in Callers : SetOnExisting(c) => dret[c] = "ok"

\* C13 (amended): set(fp, out) on an fp whose entry file already exists
\* returns the AlreadyExists error of create_file to its caller and adds
\* nothing to cur_size.
C13_ExistingIsError ==
    \A c \in Callers :
        SetOnExisting(c) => (dret[c] = "err" /\ job[c].r.added = 0)

\* a set met the completed entry of an earlier successful set
C13_Witness ==
    \E c, d \in Callers :
        /\ SetOnExisting(c)
        /\ job[c].saw.state = "written"
        /\ dret[c] = "err"
        /\ dpc[d] = "done" /\ dop[d].kind = "set" /\ dret[d] = "ok"
        /\ dop[d].f = dop[c].f

\* C20: at any instant the blocking file operations of get and set that
\* are running number at most the capacity of the disk-I/O semaphore, also
\* when callers are cancelled while their operation runs.
C20_RunningWithinPermits ==
    Cardinality(RunningJobs) <= DiskPermits

\* ========================================================================
\* Properties of the entry files and the cleaner (checked under SpecClean)
\* ========================================================================

\* the step is taken by call c
StepOf(c) == job'[c] # job[c] \/ dpc'[c] # dpc[c]

\* C14: a disk entry is never mutated in place.  A step of a set whose
\* create_file found an entry at the path changes neither a file nor
\* cur_size, and a file written to its end changes only by being unlinked
\* by the cleaner.
C14_NeverMutatedInPlace ==
    [][ /\ \A c \in Callers :
              (dop[c].kind = "set" /\ StepOf(c)
                 /\ job'[c].saw.state # "absent")
                  => (files' = files /\ cur_size' = cur_size)
        /\ \A f \in DiskPaths :
              (origin[f].state = "written" /\ files'[f] # files[f])
                  => (cl.pc = "unlink" /\ files'[f] = NoFile) ]_vars

\* a set of another output met a complete entry and returned, and the
\* entry still holds the bytes of the output it was written from
C14_Witness ==
    \E c \in Callers :
        /\ SetOnExisting(c)
        /\ job[c].saw.state = "written"
        /\ origin[dop[c].f].state = "written"
        /\ ImageOutput(dop[c].x) # origin[dop[c].f].out
        /\ files[dop[c].f].data = EntryBytes(origin[dop[c].f].out)
        /\ cur_size = Len(files[dop[c].f].data)

\* the step ends a cleaning pass
PassEnds == cl.pc = "batch" /\ cl'.pc \in {"tick", "panicked"}

\* C16: whenever a cleaner pass ends, the value its last decrement left in
\* cur_size is <= max_size; the pass unlinked files holding at least
\* (cur_size at its start - max_size) bytes, and the bytes it subtracted
\* from cur_size are exactly the bytes of the files it unlinked.
C16_PassWithinBudget ==
    [][ PassEnds =>
            /\ cur_size' <= DiskMaxSize
            /\ pass.unlinked >= pass.start - DiskMaxSize
            /\ pass.counted + cl.removed = pass.unlinked ]_vars

\* ---- the get_image pipeline ----

\* the read job of a request that awaits DiskCache::get has read the file
\* while a write job of DiskCache::set had created it and not yet finished
\* writing it
ReadOverlapsWrite(c) ==
    /\ stage[c] = "disk_get"
    /\ dop[c].kind = "get"
    /\ job[c].st = "finished"
    /\ job[c].saw.state = "writing"

\* the outputs that processing a key can yield
WholeOutputs == {OutputOf(k) : k \in Keys}

\* C15: in every interleaving of get_image requests, cancellation of a
\* leader during its disk write included, no disk read of a fingerprint
\* overlaps a disk write of that fingerprint, no response carries a
\* partially written entry and none is put into the memory cache
C15_NoPartialEntry ==
    /\ \A c \in Requests : ~ReadOverlapsWrite(c)
    /\ \A c \in Requests :
         resp[c].status \in {"hit", "miss"} => resp[c].out \in WholeOutputs
    /\ \A i \in 1..Len(lru) : lru[i].v \in WholeOutputs

\* C17: a request that holds the single-flight slot of its key, or waits
\* in single-flight as a follower, holds a request-admission permit: the
\* admission permit is acquired before single-flight is entered
C17_AdmittedBeforeSingleFlight ==
    \A c \in Requests : (guard[c] \/ pc[c] = "waiting") => c \in admitted

\* a request that has started and has neither returned nor been dropped
InProgress(c) == stage[c] \notin {"none", "returned", "dropped"}

\* C18: at most `concurrency` requests hold an admission permit, and only
\* requests in progress hold one: a request that returned (with a
\* response or an error) or was cancelled has given its permit back, so
\* with no request in progress every permit is available
C18_AdmissionBounded ==
    /\ Cardinality(admitted) <= Concurrency
    /\ \A c \in admitted : InProgress(c)
    /\ (\A c \in Requests : ~InProgress(c)) => admitted = {}

\* one request was cancelled after it was admitted, one ended with an
\* error, and the permits are all taken again by later requests
C18_Witness ==
    /\ Cardinality(admitted) = Concurrency
    /\ \E a \in Requests : stage[a] = "dropped" /\ pjob[a] # "none"

\* C19: at most num_workers process jobs run on the blocking pool, also
\* after the request that submitted a job was cancelled
C19_RunningWithinWorkers ==
    Cardinality({c \in Requests : pjob[c] = "running"}) <= NumWorkers

\* ---- the verifier ----

\* the request's signature is missing, malformed, or verified by no
\* configured key
BadSignature ==
    \/ http.sig.kind \in {"missing", "malformed"}
    \/ ~\E k \in VerifierKeys :
           KeyVerify(k, GetMessage(http.path, http.q), http.sig)

\* C28: with a verifier configured, a request to the image or the
\* metadata endpoint whose signature is missing, malformed or verified by
\* no configured key is rejected before any work begins: neither
\* get_image nor get_metadata is called for it
C28_RejectedBeforeWork ==
    (http.op \in {"image", "metadata"} /\ http.verifier /\ BadSignature)
        => ~http.began

\* the path with its leading slash
Slashed(path) ==
    IF path # <<>> /\ path[1] = "/" THEN path ELSE <<"/">> \o path

\* C29: when raw_query is absent, or no pair is left once the pairs with
\* key s are dropped, the canonical message is the slash-prefixed path
\* followed by a single '?' and nothing after it
C29_TrailingSeparator ==
    (http.op = "verify"
        /\ (~http.q.some \/ Retain(FromStr(http.q.pairs)) = <<>>))
        => http.msg = Slashed(http.path) \o <<"?">>

\* C30: every ordering of a query's pairs, also of pairs that share a
\* key, yields the same canonical message and the same verify result
C30_OrderIrrelevant ==
    http.op = "verify" =>
        \A q2 \in Perms(http.q) :
            /\ GetMessage(http.path, q2) = http.msg
            /\ VerifierVerify(http.path, q2, http.sig) = http.verdict

\* ------------------------------------------------------------------------
\* the stages of one get_image, read off the request's history
\* ------------------------------------------------------------------------

\* the event is in the history of request c / how many times
Has(c, e) == \E i \in 1..Len(trail[c]) : trail[c][i] = e
Count(c, e) == Cardinality({i \in 1..Len(trail[c]) : trail[c][i] = e})

\* what the disk cache holds for a path, as get would read it now
DiskHolds(f) == GetInner(files[f])

\* get_image_inner of request c is about to return Ok after both tiers
\* missed, with should_cache = true and both caches configured
ColdMiss(c) ==
    /\ stage[c] = "ready"
    /\ resp[c].status # "err"
    /\ cfg.mem /\ cfg.disk /\ sc[c]
    /\ Has(c, "mem_miss") /\ Has(c, "disk_miss")

\* C21: a successful get_image that misses both tiers, with should_cache
\* and both caches configured, fetches once and processes once and
\* returns MISS; when it returns the memory cache holds the output for
\* the fingerprint if the output fits the budget, and the disk cache
\* holds the whole entry if the disk write succeeded
C21_ColdMissFillsBoth ==
    \A c \in Requests :
        ColdMiss(c) =>
            LET f == FpOf(key[c])
                x == OutputOf(key[c])
            IN  /\ resp[c] = [status |-> "miss", out |-> x]
                /\ Count(c, "fetch") = 1
                /\ Count(c, "process") = 1
                /\ x.len <= MaxBytes => LruPeek(lru, f) = x
                /\ Has(c, "disk_set_ok") =>
                       /\ files[f].data = EntryBytes(ImageOutput(x))
                       /\ DiskHolds(f).kind = "hit"
                       /\ FromImage(DiskHolds(f).out) = x

\* a cold miss of an output that fits, written to disk, about to return
C21_Witness ==
    \E c \in Requests :
        /\ ColdMiss(c)
        /\ OutputOf(key[c]).len <= MaxBytes
        /\ Has(c, "disk_set_ok")
        /\ LruPeek(lru, FpOf(key[c])) # NoOut

\* the place of an event in get_image_inner: memory probe, disk probe,
\* promotion, fetch, process, memory fill, disk fill
Rank(e) ==
    CASE e \in {"mem_hit", "mem_miss"} -> 1
      [] e \in {"disk_hit", "disk_miss", "disk_err"} -> 2
      [] e = "promote" -> 3
      [] e \in {"fetch", "fetch_err"} -> 4
      [] e = "process" -> 5
      [] e = "mem_set" -> 6
      [] e \in {"disk_set_ok", "disk_set_err"} -> 7

\* request c was served from a cache
ServedFromCache(c) == Has(c, "mem_hit") \/ Has(c, "disk_hit")

\* C22: within one get_image the stages run strictly in the order memory
\* probe, disk probe, fetch, process, cache fill; the fetcher and the
\* processor are invoked only if every configured cache probe missed; a
\* request served from a cache never fetches or processes, and its body
\* is the bytes held by the cache that served it
C22_StagesInOrder ==
    \A c \in Requests :
        LET t == trail[c]
            f == FpOf(key[c])
        IN  /\ \A i \in 1..Len(t) : \A j \in 1..Len(t) :
                   i < j => Rank(t[i]) < Rank(t[j])
            /\ (Has(c, "fetch") \/ Has(c, "fetch_err")) =>
                   /\ cfg.mem => Has(c, "mem_miss")
                   /\ cfg.disk => Has(c, "disk_miss") \/ Has(c, "disk_err")
            /\ Has(c, "process") => Has(c, "fetch")
            /\ ServedFromCache(c) =>
                   ~(Has(c, "fetch") \/ Has(c, "fetch_err")
                        \/ Has(c, "process"))
            /\ (stage[c] = "ready" /\ Has(c, "mem_hit")) =>
                   /\ resp[c].status = "hit"
                   /\ resp[c].out # NoOut
                   /\ resp[c].out = LruPeek(lru, f)
            /\ (stage[c] = "ready" /\ Has(c, "disk_hit")) =>
                   /\ resp[c].status = "hit"
                   /\ DiskHolds(f).kind = "hit"
                   /\ ImageOutput(resp[c].out) = DiskHolds(f).out

\* a request about to return a memory hit, after a request that was
\* served from disk
C22_Witness ==
    \E c \in Requests : \E d \in Requests :
        /\ stage[c] = "ready" /\ Has(c, "mem_hit")
        /\ d # c /\ Has(d, "disk_hit")

\* request c was a disk hit that was promoted, and d is the next request,
\* for the same fingerprint, about to return
NextAfterPromotion(c, d) ==
    /\ d = c + 1
    /\ Has(c, "disk_hit") /\ Has(c, "promote")
    /\ key[d] = key[c]
    /\ stage[d] = "ready"

\* C23 as stated: after a disk hit with should_cache and a memory cache,
\* the request has not fetched and the next request for the same
\* fingerprint is served from the memory cache
C23_NextServedFromMemory ==
    \A c \in Requests : \A d \in Requests :
        NextAfterPromotion(c, d) =>
            /\ ~Has(c, "fetch")
            /\ Has(d, "mem_hit")

\* C23, amended: the disk entry is set in the memory cache before HIT is
\* returned and nothing is fetched; the next request for the same
\* fingerprint is served from the memory cache provided the entry fits
\* the memory budget
C23_PromotedIfFits ==
    /\ \A c \in Requests :
           (stage[c] = "ready" /\ Has(c, "disk_hit") /\ cfg.mem /\ sc[c]) =>
               /\ Has(c, "promote")
               /\ ~Has(c, "fetch")
               /\ resp[c].status = "hit"
               /\ memLast.op = "set" /\ memLast.k = FpOf(key[c])
               /\ memLast.out = resp[c].out
               /\ resp[c].out.len <= MaxBytes =>
                      LruPeek(lru, FpOf(key[c])) = resp[c].out
    /\ \A c \in Requests : \A d \in Requests :
           (NextAfterPromotion(c, d) /\ resp[c].out.len <= MaxBytes) =>
               /\ Has(d, "mem_hit")
               /\ resp[d] = [status |-> "hit", out |-> resp[c].out]

\* the request after a promoted disk hit returns a memory hit
C23_Witness ==
    \E c \in Requests : \E d \in Requests :
        /\ NextAfterPromotion(c, d)
        /\ resp[c].out.len <= MaxBytes
        /\ resp[c].out # NoOut
        /\ Has(d, "mem_hit")

\* request c is about to return Ok from get_image_inner
ReturnsOk(c) == stage[c] = "ready" /\ resp[c].status # "err"

\* C24: cache_status is HIT exactly when the output was read from the
\* memory or the disk cache; it is MISS when the output was fetched and
\* processed and at least one cache is configured, and absent when it was
\* fetched and processed and no cache is configured
C24_CacheStatus ==
    \A c \in Requests :
        ReturnsOk(c) =>
            /\ resp[c].status \in {"hit", "miss", "plain"}
            /\ resp[c].status = "hit" <=> ServedFromCache(c)
            /\ resp[c].status = "miss" <=>
                   (Has(c, "process") /\ (cfg.mem \/ cfg.disk))
            /\ resp[c].status = "plain" <=>
                   (Has(c, "process") /\ ~cfg.mem /\ ~cfg.disk)
            /\ ServedFromCache(c) <=> ~Has(c, "process")

\* a request about to return its processed output without cache_status,
\* from a Handler that has no cache
C24_Witness ==
    \E c \in Requests :
        /\ ReturnsOk(c)
        /\ resp[c].status = "plain"
        /\ Has(c, "process")

\* the entries of the memory cache, whatever their order of use
LruEntries == {lru[i] : i \in 1..Len(lru)}

\* a step of the get_image computation of request c
RequestStep(c) ==
    \/ job'[c] # job[c]
    \/ stage'[c] # stage[c]
    \/ pc'[c] # pc[c]
    \/ dpc'[c] # dpc[c]
    \/ trail'[c] # trail[c]

\* C25: a step of a get_image computation run with should_cache = false
\* inserts and replaces no entry of the memory cache and no file of the
\* disk cache, and leaves the memory cache's size and the disk cache's
\* approx_size unchanged, whether the request is served by a cache hit or
\* by fetch and process
C25_NoCacheUntouched ==
    [][\A c \in Requests :
          (RequestStep(c) /\ ~sc[c] /\ stage[c] # "none") =>
              /\ LruEntries' = LruEntries
              /\ size' = size
              /\ lastSet' = lastSet
              /\ files' = files
              /\ cur_size' = cur_size]_vars

\* requests with should_cache = false have returned a cache hit and a
\* processed output, and the caches hold what they held
C25_Witness ==
    \E c \in Requests : \E d \in Requests :
        /\ ~sc[c] /\ ~sc[d]
        /\ Has(c, "disk_hit") /\ pc[c] = "done"
        /\ Has(d, "process") /\ stage[d] = "ready"
        /\ cfg.mem /\ cfg.disk

\* the response get_image gives when the disk cache misses without a
\* failure: the processed output, MISS
WithoutFailure(c) == [status |-> FilledStatus, out |-> OutputOf(key[c])]

\* C27: a disk cache read error (a malformed entry included) is treated
\* as a miss and a disk cache write error is swallowed: in both cases
\* get_image goes on to fetch and process and returns the processed
\* output with the cache_status it has without the failure
C27_CacheFailuresSwallowed ==
    \A c \in Requests :
        /\ (Has(c, "disk_err") /\ stage[c] \notin {"none", "disk_get"}) =>
               /\ ~Has(c, "disk_hit")
               /\ stage[c] \in {"fetch", "process", "disk_set", "ready",
                                 "returned"}
        /\ (stage[c] = "ready" /\ resp[c].status # "err"
               /\ (Has(c, "disk_err") \/ Has(c, "disk_set_err"))) =>
               /\ Has(c, "fetch") /\ Has(c, "process")
               /\ resp[c] = WithoutFailure(c)
        /\ (stage[c] = "ready" /\ resp[c].status # "err" /\ cfg.disk
               /\ DiskHolds(FpOf(key[c])).kind = "err"
               /\ ~Has(c, "mem_hit")) =>
               /\ Has(c, "disk_err")
               /\ resp[c] = WithoutFailure(c)

\* a request that met a malformed entry on its read and an error on its
\* write is about to return the processed output
C27_Witness ==
    \E c \in Requests :
        /\ stage[c] = "ready"
        /\ Has(c, "disk_err") /\ Has(c, "disk_set_err")
        /\ resp[c] = [status |-> "miss", out |-> OutputOf(key[c])]

\* the leader's get_image_inner returned an error and Group::run went on
\* after `func().await`
LeaderFailed(l) ==
    /\ IsLeader(l)
    /\ stage[l] = "returned"
    /\ resp[l].status = "err"

\* C26: when the single-flight leader's get_image fails with a non-cache
\* error, the leader and every follower of that computation receive the
\* same error: each of them that has returned returned the leader's
\* result, a follower still waiting has it ready, and no follower woke
\* from that computation without a result
C26_ErrorBroadcast ==
    \A l \in Requests :
        LeaderFailed(l) =>
            /\ pc[l] = "done" => ret[l] = res[l]
            /\ \A c \in Requests :
                   (joined[c] = res[l] /\ pc[c] = "done") =>
                       /\ ret[c] = res[l]
                       /\ resp[LeaderOf(ret[c])].status = "err"
            /\ \A c \in Requests :
                   (pc[c] = "waiting" /\ rx[c].ch = res[l] /\ pc[l] = "done")
                       => ChangedOk(rx[c]) /\ chans[rx[c].ch].val = res[l]
            /\ \A c \in Requests : wokeFrom[c] # res[l]

\* the leader's fetch failed, and the leader and a follower have both
\* returned its error
C26_Witness ==
    \E l \in Requests : \E c \in Requests :
        /\ LeaderFailed(l) /\ pc[l] = "done"
        /\ c # l /\ ~IsLeader(c)
        /\ joined[c] = res[l] /\ pc[c] = "done"
        /\ ret[c] = ret[l]

\* ========================================================================
\* Properties of the keys of the three layers (checked under SpecKey)
\* ========================================================================

\* the two requests have the same URL, width, height, out_type, quality
\* and blur
SameWork ==
    /\ fpr.a.url = fpr.b.url
    /\ fpr.a.ops.width = fpr.b.ops.width
    /\ fpr.a.ops.height = fpr.b.ops.height
    /\ fpr.a.ops.out_type = fpr.b.ops.out_type
    /\ fpr.a.ops.quality = fpr.b.ops.quality
    /\ fpr.a.ops.blur = fpr.b.ops.blur

\* C31: two requests share a single-flight slot iff they address the same
\* memory cache entry iff they map to the same disk path (digest
\* collisions aside), that is, iff URL, width, height, out_type, quality
\* and blur are all equal
C31_SameKeyEverywhere ==
    fpr.op = "keys" =>
        /\ (fpr.sf[1] = fpr.sf[2]) <=> SameWork
        /\ (fpr.mem[1] = fpr.mem[2]) <=> SameWork
        /\ (fpr.path[1] = fpr.path[2]) <=> SameWork

\* two requests for one URL that differ only in which of width and height
\* is 1 have different keys in all three layers
C31_Witness ==
    /\ fpr.op = "keys"
    /\ fpr.a.url = fpr.b.url
    /\ fpr.a.ops.width = <<"1">> /\ fpr.a.ops.height = <<>>
    /\ fpr.b.ops.width = <<>> /\ fpr.b.ops.height = <<"1">>
    /\ fpr.a.ops.out_type = fpr.b.ops.out_type
    /\ fpr.a.ops.quality = fpr.b.ops.quality
    /\ fpr.a.ops.blur = fpr.b.ops.blur
    /\ fpr.sf[1] # fpr.sf[2]
    /\ fpr.mem[1] # fpr.mem[2]
    /\ fpr.path[1] # fpr.path[2]

\* ========================================================================
\* More properties of singleflight::Group (checked under SpecSF)
\* ========================================================================

\* the leader of channel e has returned from func (`res` is bound)
Finished(e) == \E c \in Callers : res[c] = e

\* the channel a caller of run(k, .) arriving now would join; NoCh: it
\* takes the Sender arm and starts a new computation
WouldJoin(k) == map[k]

\* C32: the leader removes its slot before it sends: once func has
\* returned, and so whenever a follower can receive a result, the slot of
\* that computation is absent from the map; a caller that arrives then
\* does not join the finished computation, and the followers that joined
\* before have the result ready
C32_SlotGoneBeforeSend ==
    \A e \in 1..Len(chans) :
        /\ (Finished(e) \/ chans[e].val # None) =>
               WouldJoin(chans[e].key) # e
        /\ chans[e].val # None =>
               /\ Finished(e) /\ chans[e].val = e
               /\ \A c \in Callers :
                      (pc[c] = "waiting" /\ rx[c].ch = e) => ChangedOk(rx[c])

\* while a leader is between its send and its return, with a follower
\* that has not yet woken, a caller that arrived for the same key is the
\* leader of a new computation
C32_Witness ==
    \E c, d, f \in Callers :
        /\ pc[c] = "return" /\ chans[tx[c]].val = res[c]
        /\ pc[f] = "waiting" /\ rx[f].ch = tx[c]
        /\ key[d] = key[c]
        /\ pc[d] = "func" /\ tx[d] # tx[c]

\* ========================================================================
\* More properties of cache::memory::MemoryCache (checked under SpecMem)
\* ========================================================================

\* the entries of l other than the one of key f, in their order of use
RECURSIVE Others(_, _)
Others(l, f) ==
    IF l = <<>> THEN <<>>
    ELSE IF Head(l).k = f THEN Others(Tail(l), f)
    ELSE <<Head(l)>> \o Others(Tail(l), f)

\* s is what is left of l when entries are taken from its least recently
\* used end
IsMostRecentPart(s, l) == Len(s) <= Len(l) /\ s = SubSeq(l, 1, Len(s))

\* C33: a get hit and a set make their entry the most recently used and
\* leave the order of the other entries as it was; set evicts strictly
\* from the least recently used end: the entries it keeps are the most
\* recently used ones, and the entry it has just put goes last of all
C33_EvictsLeastRecent ==
    [][ LET f == memLast'.k
        IN  /\ (memLast'.op = "get" /\ memLast'.out # NoOut) =>
                   /\ lru' # <<>> /\ Head(lru').k = f
                   /\ Others(lru', f) = Others(lru, f)
            /\ (memLast'.op = "get" /\ memLast'.out = NoOut) => lru' = lru
            /\ (memLast'.op = "set" /\ ~memPanic') =>
                   /\ IsMostRecentPart(Others(lru', f), Others(lru, f))
                   /\ f \in LruKeys(lru') => Head(lru').k = f
                   /\ f \notin LruKeys(lru') => lru' = <<>> ]_vars

\* a set has evicted one entry and kept another one next to the entry it
\* put
C33_Witness ==
    /\ memLast.op = "set"
    /\ memLast.old = NoOut
    /\ memLast.popped = 1
    /\ Len(lru) = 2
    /\ Head(lru).k = memLast.k

\* ========================================================================
\* Progress of singleflight::Group (checked under SpecStrand)
\* ========================================================================

\* the call of c is over: it returned, or c itself was cancelled (as a
\* follower, or as a leader inside func)
RunOver(c) == pc[c] \in {"done", "cancelled", "aborted"}

\* C34: no follower is stranded: under fair scheduling, with every
\* execution of func terminating, a caller of run(k, .) that is not itself
\* cancelled eventually returns, also when leaders of k are cancelled or
\* panic while it waits
C34_NoFollowerStranded ==
    \A c \in Waiters : (pc[c] # "idle") ~> RunOver(c)

\* a follower woke from the channel of an abandoned leader with no
\* result, ran get_state again and has returned
C34_Witness ==
    \E c \in Waiters :
        /\ pc[c] = "done"
        /\ wokeFrom[c] # NoCh /\ wokeFrom[c] \in aborted

\* ========================================================================
\* Progress of the pipeline (checked under SpecFlow)
\* ========================================================================

\* the request is over: Group::run returned to it, or get_metadata
\* returned
Completed(c) ==
    \/ pc[c] = "done"
    \/ pc[c] = "idle" /\ stage[c] = "returned"

\* C35: the pipeline is deadlock-free: with admission, processor and
\* disk-I/O permits of capacity >= 1 and any mix of concurrent get_image
\* requests (leaders and followers) and get_metadata requests, every
\* request that is made eventually completes, when fetches and blocking
\* jobs end and scheduling is fair. A request is made once and stays
\* completed, so this is: from some point on, every request that was made
\* is completed
C35_EveryRequestCompletes ==
    <>[](\A c \in Requests : Started(c) => Completed(c))

\* every request is over; among them a get_image leader that went through
\* all three permits (its output is on disk) next to a follower or a
\* get_metadata request that was served
C35_Witness ==
    /\ \A c \in Requests : Completed(c)
    /\ \E c, d \in Requests :
          /\ c # d
          /\ Has(c, "disk_set_ok")
          /\ \/ stage[d] = "none" /\ key[d] = key[c]
             \/ resp[d].status = "meta"

\* ========================================================================
\* The cleaner task of DiskCache (checked under SpecClean, SpecCleanFair)
\* ========================================================================

\* the cleaner is inside the removal loop of a pass
InRemovalLoop == cl.pc \in {"batch", "unlink"}

\* C36: every cleaner pass terminates: a pass that observed cur_size >
\* max_size leaves its removal loop after finitely many batches, also
\* when a batch can remove no file
C36_PassTerminates == InRemovalLoop ~> ~InRemovalLoop

\* the removal loop is over and the decrement of cur_size is next
AtDecrement == cl.pc = "batch" /\ cl.removed >= cl.to_remove

\* C37: the checked subtractions of the cleaner never fail and the
\* cleaner task keeps running: in every reachable state, sets that run
\* next to a pass included, the bytes removed by the pass are at most
\* cur_size when they are subtracted from it
C37_SubtractionsNeverFail ==
    /\ cl.pc # "panicked"
    /\ AtDecrement => cl.removed <= cur_size

\* the initial scan is over and its sum has been added to cur_size
ScanAdded == cl.pc \notin {"scan", "add"}

\* every set that was called has returned
SetsFinished == \A c \in Callers : dpc[c] \in {"idle", "done"}

\* no entry has been removed: the file of every set that returned Ok is
\* still at its path
NothingRemoved == \A c \in Callers : dret[c] = "ok" => job[c].att

\* C38: each entry file contributes its size to cur_size exactly once: a
\* set that runs while the initial scan is under way is not counted both
\* by the scan and by its own fetch_add, so once the scan and all sets
\* have finished, and before any removal, cur_size is the total size of
\* the entry files on disk
C38_CountedOnce ==
    ScanAdded /\ SetsFinished /\ NothingRemoved
        => cur_size = SumFileLen(ExistingPaths)

\* ========================================================================
\* The key of the single-flight group (checked under SpecShare)
\* ========================================================================

\* request c waited in Group::run as a follower and was handed a result
FollowerServed(c) == pc[c] = "done" /\ stage[c] = "none"

\* l is the leader whose execution produced what c returned
LedFor(l, c) == l # c /\ res[l] # None /\ res[l] = ret[c]

\* the leader's execution acted on its own flags: its ServerTiming was
\* built from its timing argument, and an output it processed was put
\* into the caches exactly if its should_cache argument was true
OwnFlags(l) ==
    /\ args[l].hdr = ServerTimingNew(args[l].timing)
    /\ Has(l, "process") =>
          /\ Has(l, "mem_set") <=> sc[l]
          /\ (Has(l, "disk_set_ok") \/ Has(l, "disk_set_err")) <=> sc[l]

\* C39: the single-flight key of get_image is the url and the process
\* options only: requests for the same work never run get_image_inner at
\* the same time whatever their flags, and a follower returns the response
\* of a leader of the same work, with the timing record and the cache
\* effect of the leader's flags, whatever flags the follower passed
C39_FlagsNotInKey ==
    /\ \A c, d \in Requests :
          c # d /\ pc[c] = "func" /\ pc[d] = "func"
              => args[c].work # args[d].work
    /\ \A c \in Requests :
          FollowerServed(c) =>
              \E l \in Requests :
                  /\ LedFor(l, c)
                  /\ args[l].work = args[c].work
                  /\ stage[l] = "returned"
                  /\ OwnFlags(l)

\* a follower that passed timing = true and should_cache = true returned
\* the response of a leader that passed false for both: no timing header
\* and nothing cached
C39_Witness ==
    \E c, l \in Requests :
        /\ FollowerServed(c) /\ LedFor(l, c)
        /\ args[c].timing /\ sc[c]
        /\ ~args[l].timing /\ ~sc[l]
        /\ args[l].hdr = "None"
        /\ Has(l, "process") /\ ~Has(l, "mem_set")
        /\ lru = <<>> /\ ExistingPaths = {}

\* ========================================================================
\* A malformed entry and the request that meets it (checked under SpecReq)
\* ========================================================================

\* get_image_inner of request c, called with should_cache = true, found
\* the disk entry of its fingerprint malformed, went on as after a miss,
\* recomputed the output and is through with its cache writes
RecomputedOverMalformed(c) ==
    /\ sc[c]
    /\ Has(c, "disk_err") /\ Has(c, "process")
    /\ stage[c] \in {"ready", "returned"}

\* C40 as stated: a malformed entry does not outlive a caching request
\* for its fingerprint: after the request a DiskCache::get for the
\* fingerprint returns a valid hit equal to the recomputed output
C40_MalformedReplaced ==
    \A c \in Requests :
        RecomputedOverMalformed(c) =>
            /\ DiskHolds(FpOf(key[c])).kind = "hit"
            /\ DiskHolds(FpOf(key[c])).out = ImageOutput(OutputOf(key[c]))

\* C40 amended: the malformed entry outlives the request: disk_cache.set
\* fails on the existing file (create_new) and leaves it as it is, the
\* request returns the recomputed output with status MISS, and a
\* DiskCache::get for the fingerprint finds the entry malformed again
C40_MalformedOutlives ==
    \A c \in Requests :
        RecomputedOverMalformed(c) =>
            /\ Has(c, "disk_set_err") /\ ~Has(c, "disk_set_ok")
            /\ DiskHolds(FpOf(key[c])).kind = "err"
            /\ origin[FpOf(key[c])].state = "cut"
            /\ resp[c] = [status |-> "miss", out |-> OutputOf(key[c])]

\* two caching requests for the same key one after the other: each found
\* the entry malformed and each returned the recomputed output
C40_Witness ==
    \E c, d \in Requests :
        /\ c < d /\ key[c] = key[d]
        /\ RecomputedOverMalformed(c) /\ stage[c] = "returned"
        /\ RecomputedOverMalformed(d) /\ stage[d] = "returned"
        /\ resp[d].status = "miss"

====
